---- MODULE Spec2Model ----
(***************************************************************************)
(* Model of the Express RAG backend: the VectorStore, the EmbeddingService, *)
(* the IndexingService and the RAGPipeline.                                 *)
(*                                                                          *)
(* The server is a single Node.js process: every request handler is an      *)
(* async function that runs without interruption up to its next `await`.    *)
(* A task of the model is one such handler; pc[t] names the await the task  *)
(* is suspended at, and one action is the code that runs between two        *)
(* awaits.  Continuations that touch no shared state (returning through a   *)
(* chain of async callers) are folded into the step that precedes them.     *)
(* External calls (embedding model, file system, scraper, chat backend)     *)
(* either return or raise; which one is a choice of the environment.        *)
(***************************************************************************)
EXTENDS Integers, Sequences, FiniteSets, TLC

(* ------------------------------ bounds --------------------------------- *)
NumTasks == 2
MaxCalls == 3
MaxChunks == 3

Tasks == 1..NumTasks

(* ------------------------------ values --------------------------------- *)
Undefined == "undefined"
Null == "null"
\* Reading an absent file fails with code ENOENT.
NoFile == [code |-> "ENOENT"]
NoData == [none |-> TRUE]

\* Documents as callers hand them to the store.  ChunkA and ChunkA2 carry
\* the same id with different content; the description of a chunk may be
\* the JavaScript value undefined.
ChunkA == [id |-> "A", title |-> "ta", content |-> "x", description |-> Undefined]
ChunkA2 == [id |-> "A", title |-> "ta", content |-> "y", description |-> "d"]
ChunkB == [id |-> "B", title |-> "tb", content |-> "z", description |-> "d"]

Ids == {"A", "B"}
Batches == {<<ChunkA>>, <<ChunkA2, ChunkB>>, <<ChunkB, ChunkA>>}
\* The (query, topK) pairs of the search requests; the routes pass topK on
\* as the client sent it.
SearchArgs == {<<"q1", 2>>, <<"q2", 1>>, <<"q1", -1>>}

Min(a, b) == IF a < b THEN a ELSE b
Max(a, b) == IF a > b THEN a ELSE b

(* ------------------------- EmbeddingService ---------------------------- *)
\* The feature-extraction model is a black box text -> vector; the table
\* stands for it.  Vectors are integer multiples of unit vectors (cosine
\* similarity does not depend on the scale).
generateEmbedding(text) ==
  CASE text = "ta. x" -> <<4, 3, 0, 0>>
    [] text = "ta. y" -> <<0, 5, 0, 0>>
    [] text = "tb. z" -> <<4, -3, 0, 0>>
    [] text = "pa (Part 1/1). x" -> <<4, 3, 0, 0>>
    [] text = "pb (Part 1/1). y" -> <<0, 5, 0, 0>>
    [] text = "q1" -> <<5, 0, 0, 0>>
    [] text = "q2" -> <<3, 4, 0, 0>>
    [] text = "What is the return policy?" -> <<3, 4, 0, 0>>
    [] text = "Where is my order?" -> <<3, -1, 9, 3>>
    [] OTHER -> <<0, -5, 0, 0>>

RECURSIVE SumProd(_, _, _)
SumProd(a, b, n) == IF n = 0 THEN 0 ELSE SumProd(a, b, n - 1) + a[n] * b[n]

Sqrt(n) == CHOOSE r \in 0..n : r * r <= n /\ (r + 1) * (r + 1) > n

DimensionError == "Vectors must have the same dimension"

\* Scores are kept in thousandths: the value is 1000 * cos(a, b).
cosineSimilarity(a, b) ==
  IF Len(a) # Len(b) THEN DimensionError
  ELSE LET dotProduct == SumProd(a, b, Len(a))
           normA == SumProd(a, a, Len(a))
           normB == SumProd(b, b, Len(a))
       IN IF normA = 0 \/ normB = 0 THEN 0
          ELSE (dotProduct * 1000) \div (Sqrt(normA) * Sqrt(normB))

(* ------------------------------ state ---------------------------------- *)
VARIABLES
  documents,        \* VectorStore.documents
  embeddings,       \* VectorStore.embeddings
  isIndexed,        \* VectorStore.isIndexed
  initialized,      \* VectorStore.initialized
  file,             \* the snapshot file at storePath (NoFile when absent)
  isIndexing,       \* IndexingService.isIndexing
  currentProgress,  \* IndexingService.currentProgress
  pc,               \* per task: the await it is suspended at
  op,               \* per task: the entry point it was called through
  arg,              \* per task: the arguments of the call
  loc,              \* per task: local variables of the running functions
  ret,              \* per task: how the call ended
  hist,             \* per task: history of the current call
  solo,             \* per task: no other task has run since the call began
  fileSrc,          \* history: the in-memory state the file was serialised from
  loadHist,         \* history: loads and changes of the arrays since construction
  ncalls,           \* number of calls made so far
  chunker           \* DocumentProcessor: its configuration and the chunkText call

vars == <<documents, embeddings, isIndexed, initialized, file, isIndexing,
          currentProgress, pc, op, arg, loc, ret, hist, solo, fileSrc, loadHist,
          ncalls, chunker>>

storeVars == <<documents, embeddings, isIndexed, initialized>>
serviceVars == <<isIndexing, currentProgress>>

NoArg == [documents |-> <<>>, id |-> "", query |-> "", topK |-> 0,
          urls |-> <<>>, includeThinking |-> FALSE]
NoResults == [successful |-> 0, failed |-> 0, totalChunks |-> 0, errors |-> <<>>]
NoLoc == [newDocs |-> <<>>, i |-> 0, data |-> NoData, src |-> NoData,
          urls |-> <<>>, k |-> 0, results |-> NoResults, chunks |-> <<>>,
          ollamaAvailable |-> FALSE, isCasual |-> FALSE,
          generationMethod |-> "", usedDocs |-> <<>>]
NoRet == [kind |-> "none", val |-> Undefined]
NoHist == [pushed |-> 0, wrote |-> FALSE, loaded |-> FALSE,
           idsAtCall |-> {}, lenAtCall |-> 0,
           attempted |-> <<>>, searches |-> 0, embedCalls |-> 0, chats |-> <<>>,
           failedAt |-> 0, replies |-> <<>>, retrieved |-> <<>>,
           between |-> FALSE, health |-> <<>>, pushedDocs |-> <<>>,
           raised |-> <<>>]

Value(v) == [kind |-> "value", val |-> v]
Error(m) == [kind |-> "error", val |-> m]

IdsOf(docs) == {docs[j].id : j \in 1..Len(docs)}

\* History of a call that starts now.
NewHist ==
  [NoHist EXCEPT !.idsAtCall = IdsOf(documents), !.lenAtCall = Len(documents)]

IdleProgress ==
  [status |-> "idle", totalUrls |-> 0, processedUrls |-> 0, totalChunks |-> 0,
   errors |-> <<>>]

\* History of a store that has just been constructed: the number of times
\* the arrays were replaced from the snapshot, whether a pair was appended
\* or removed, whether the arrays were replaced after that, and whether an
\* embedding call or a save of a store operation has failed.
NoLoads == [loads |-> 0, changed |-> FALSE, loadedAfterChange |-> FALSE,
            failed |-> FALSE]

\* The document processor as constructed with the given configuration,
\* before any document is handed to it.
NewChunker(chunkSize, chunkOverlap) ==
  [pc |-> "idle", chunkSize |-> chunkSize, chunkOverlap |-> chunkOverlap,
   text |-> <<>>, startIndex |-> 0, chunks |-> <<>>, spans |-> <<>>,
   called |-> "none", odd |-> FALSE,
   input |-> <<>>, output |-> <<>>, again |-> <<>>]

\* CHUNK_SIZE and CHUNK_OVERLAP unset.
DefaultChunkSize == 800
DefaultChunkOverlap == 200

\* The services as the module loads construct them.
ServerInit ==
  /\ documents = <<>>
  /\ embeddings = <<>>
  /\ isIndexed = FALSE
  /\ initialized = FALSE
  /\ file = NoFile
  /\ isIndexing = FALSE
  /\ currentProgress = IdleProgress
  /\ pc = [t \in Tasks |-> "idle"]
  /\ op = [t \in Tasks |-> "none"]
  /\ arg = [t \in Tasks |-> NoArg]
  /\ loc = [t \in Tasks |-> NoLoc]
  /\ ret = [t \in Tasks |-> NoRet]
  /\ hist = [t \in Tasks |-> NoHist]
  /\ solo = [t \in Tasks |-> TRUE]
  /\ fileSrc = NoData
  /\ loadHist = NoLoads
  /\ ncalls = 0

Init ==
  /\ ServerInit
  /\ chunker = NewChunker(DefaultChunkSize, DefaultChunkOverlap)

(* ------------------------------ tasks ---------------------------------- *)
InFlight(t) == pc[t] \notin {"idle", "done"}

\* A request is served by the lowest-numbered task that is not in flight
\* (which task of the model runs a handler makes no difference).
CanCall(t) ==
  /\ ~InFlight(t)
  /\ \A u \in 1..(t - 1) : InFlight(u)
  /\ ncalls < MaxCalls

\* A call of entry point o starts in task t.
Begin(t, o, a) ==
  /\ CanCall(t)
  /\ op' = [op EXCEPT ![t] = o]
  /\ arg' = [arg EXCEPT ![t] = a]
  /\ solo' = [u \in Tasks |-> u = t]
  /\ ncalls' = ncalls + 1
  /\ UNCHANGED chunker

\* Task t, in flight, takes a step of its call.
Continue(t) ==
  /\ solo' = [u \in Tasks |-> u = t /\ solo[u]]
  /\ UNCHANGED <<op, arg, ncalls, chunker>>

\* Task t suspends at the await named label with locals l.
Goto(t, label, l) ==
  /\ pc' = [pc EXCEPT ![t] = label]
  /\ loc' = [loc EXCEPT ![t] = l]
  /\ ret' = [ret EXCEPT ![t] = NoRet]

\* The call of task t ends with result r.
Return(t, r) ==
  /\ pc' = [pc EXCEPT ![t] = "done"]
  /\ loc' = [loc EXCEPT ![t] = NoLoc]
  /\ ret' = [ret EXCEPT ![t] = r]

\* Property read on a JavaScript object: a missing key reads as undefined.
Get(doc, k) == IF k \in DOMAIN doc THEN doc[k] ELSE Undefined

(* ------------------------- DocumentProcessor --------------------------- *)
\* What webScraper.scrape(url) extracts from the pages of the model: the
\* content "x" stands for a text that fits one chunk, "yz" for a text
\* longer than chunkSize, of which chunkText keeps the first window "y",
\* and "s" for a text below the minimum length.
ScrapedDoc(url) ==
  CASE url = "/a" -> [title |-> "pa", content |-> "x", url |-> url, description |-> ""]
    [] url = "/b" -> [title |-> "pb", content |-> "yz", url |-> url, description |-> "d"]
    [] OTHER -> [title |-> "pe", content |-> "s", url |-> url, description |-> ""]

Urls == {"/a", "/b", "/e"}

ContentLength(content) ==
  CASE content = "x" -> 60
    [] content = "yz" -> 1000
    [] OTHER -> 10

\* chunkText on the contents of the model's pages.
PageChunks(content) ==
  CASE content = "x" -> <<"x">>
    [] content = "yz" -> <<"y">>
    [] OTHER -> <<content>>

\* An id that would also depend on when the document is processed.
generateIdPerRun(url) == url \o "@" \o (IF Len(documents) = 0 THEN "0" ELSE "1")

\* The first twelve hex digits of the MD5 of the URL.
generateId(url) ==
  CASE url = "/a" -> "0cc175b9c0f1"
    [] url = "/b" -> "92eb5ffee6ae"
    [] OTHER -> "e1671797c52e"

generateHash(content) == "md5:" \o content

Digits(n) == CASE n = 0 -> "0" [] n = 1 -> "1" [] n = 2 -> "2" [] OTHER -> "3"

MinContentLength == 50

\* processDocument(scrapedDoc): the chunks with their metadata (the
\* category and the scrape time, which nothing modelled here reads, are
\* left out).
processDocument(scrapedDoc) ==
  IF ContentLength(scrapedDoc.content) < MinContentLength THEN <<>>
  ELSE LET baseId == generateId(scrapedDoc.url)
           chunks == PageChunks(scrapedDoc.content)
       IN [index \in 1..Len(chunks) |->
             [id |-> baseId \o "-chunk-" \o Digits(index - 1),
              title |-> scrapedDoc.title \o " (Part " \o Digits(index) \o "/"
                          \o Digits(Len(chunks)) \o ")",
              content |-> chunks[index],
              chunk |-> index - 1,
              totalChunks |-> Len(chunks),
              url |-> scrapedDoc.url,
              description |-> IF index = 1 THEN scrapedDoc.description ELSE "",
              contentHash |-> generateHash(chunks[index])]]

(* -------------------- IndexingService: continuations ------------------- *)
AlreadyIndexing == "Indexing already in progress"
NoContent == "No content extracted from URL"

CurrentUrl(t) == loc[t].urls[loc[t].k]

\* The result object of indexUrl.
IndexUrlResult(r, chunks) ==
  IF r.kind = "error"
  THEN [success |-> FALSE, chunks |-> 0, errors |-> <<r.val>>]
  ELSE [success |-> TRUE, chunks |-> Len(chunks), errors |-> <<>>]

\* A loop body that counts a failed unit without recording its error.
AddResultNoEntry(results, url, result) ==
  IF result.success
  THEN [results EXCEPT !.successful = @ + 1, !.totalChunks = @ + result.chunks]
  ELSE [results EXCEPT !.failed = @ + 1]

\* indexUrls, loop body after `await this.indexUrl(url)`.
AddResult(results, url, result) ==
  IF result.success
  THEN [results EXCEPT !.successful = @ + 1, !.totalChunks = @ + result.chunks]
  ELSE [results EXCEPT !.failed = @ + 1,
                       !.errors = Append(@, [url |-> url, errors |-> result.errors])]

\* An end of the loop that would leave the flag set.
BatchDoneFlagKept(progress, results) ==
  [isIndexing |-> TRUE,
   currentProgress |-> [progress EXCEPT !.status = "completed",
                                        !.errors = results.errors]]

\* indexUrls after its loop: the status, the errors and the flag.
BatchDone(progress, results) ==
  [isIndexing |-> FALSE,
   currentProgress |-> [progress EXCEPT !.status = "completed",
                                        !.errors = results.errors]]

\* indexUrl of task t ends with result; h is the history so far.  Called
\* from the route, the handler answers.  Called from indexUrls, the loop
\* counts the unit and either starts the next indexUrl (up to its scrape)
\* or completes the batch.
EndIndexUrl(t, result, h) ==
  IF op[t] = "indexUrl"
  THEN /\ Return(t, Value(result))
       /\ hist' = h
       /\ UNCHANGED serviceVars
  ELSE LET results == AddResult(loc[t].results, CurrentUrl(t), result)
           progress == [currentProgress EXCEPT !.processedUrls = @ + 1,
                                               !.totalChunks = results.totalChunks]
       IN IF loc[t].k < Len(loc[t].urls)
          THEN /\ currentProgress' = progress
               /\ Goto(t, "scrape", [NoLoc EXCEPT !.urls = loc[t].urls,
                                                  !.k = loc[t].k + 1,
                                                  !.results = results])
               /\ hist' = [h EXCEPT ![t].attempted = Append(@, loc[t].urls[loc[t].k + 1])]
               /\ UNCHANGED isIndexing
          ELSE /\ currentProgress' = BatchDone(progress, results).currentProgress
               /\ isIndexing' = BatchDone(progress, results).isIndexing
               /\ Return(t, Value(results))
               /\ hist' = h

(* ---------------------- RAGPipeline: continuations --------------------- *)
defaultTopK == 3
RelevanceThreshold == 300
Model == "deepseek-v3.1:671b-cloud"

\* Texts of the chat backend and of the fallback are sequences of tokens;
\* the two tags are tokens of their own.
IsSpace(tok) == tok \in {" ", "\n"}

RECURSIVE TrimStart(_)
TrimStart(s) ==
  IF s # <<>> /\ IsSpace(Head(s)) THEN TrimStart(Tail(s)) ELSE s

RECURSIVE TrimEnd(_)
TrimEnd(s) ==
  IF s # <<>> /\ IsSpace(s[Len(s)]) THEN TrimEnd(SubSeq(s, 1, Len(s) - 1)) ELSE s

Trim(s) == TrimEnd(TrimStart(s))

Includes(s, tok) == \E j \in 1..Len(s) : s[j] = tok

\* Index of the first tok at or after from; 0 when there is none.
IndexFrom(s, tok, from) ==
  IF \E j \in from..Len(s) : s[j] = tok
  THEN CHOOSE j \in from..Len(s) : s[j] = tok /\ \A m \in from..(j - 1) : s[m] # tok
  ELSE 0

\* query, "Parse thinking tags if present".
ParseThinking(response) ==
  LET open == IndexFrom(response, "<think>", 1)
      close == IF open = 0 THEN 0 ELSE IndexFrom(response, "</think>", open + 1)
  IN IF Includes(response, "<think>") /\ Includes(response, "</think>") /\ close # 0
     THEN [matched |-> TRUE,
           thinking |-> Trim(SubSeq(response, open + 1, close - 1)),
           cleanResponse |-> Trim(SubSeq(response, 1, open - 1)
                                  \o SubSeq(response, close + 1, Len(response)))]
     ELSE [matched |-> FALSE, thinking |-> <<>>, cleanResponse |-> response]

\* The tokens of a title or of a content.  The content "z" stands for a
\* text that itself holds a paired thinking block (a page about reasoning
\* models, say); every other text of the model is one token.
Tokens(text) ==
  IF text = "z" THEN <<"z1", "<think>", "z2", "</think>", "z3">> ELSE <<text>>

NotFound == "I couldn't find any relevant information to answer your question."

\* generateFallbackResponse(query, retrievedDocs)
generateFallbackResponse(query, retrievedDocs) ==
  IF Len(retrievedDocs) = 0
  THEN <<NotFound>>
  ELSE LET topDoc == retrievedDocs[1].document
       IN <<"Based on the available information:\n\n**">> \o Tokens(topDoc.title)
            \o <<"**\n\n">> \o Tokens(topDoc.content) \o
          <<"\n\n*Note: This is a direct excerpt from our knowledge base. For a more detailed response, please ensure Ollama is running with the DeepSeek-R1 model.*">>

Sources(usedDocs) ==
  [j \in 1..Len(usedDocs) |->
     [id |-> usedDocs[j].document.id,
      title |-> usedDocs[j].document.title,
      category |-> Get(usedDocs[j].document, "category"),
      url |-> Get(usedDocs[j].document, "url"),
      relevanceScore |-> usedDocs[j].score]]

\* The thinking field is a token sequence; the JavaScript values undefined
\* and null are written as the one-token sequences below.
JsUndefined == <<Undefined>>
JsNull == <<Null>>

\* The object query returns on the knowledge path.
QueryResponse(t, response, generationMethod, usedDocs) ==
  LET parsed == ParseThinking(response)
  IN [answer |-> parsed.cleanResponse,
      thinking |-> IF ~arg[t].includeThinking THEN JsUndefined
                   ELSE IF parsed.matched THEN parsed.thinking ELSE JsNull,
      sources |-> Sources(usedDocs),
      metadata |-> [generationMethod |-> generationMethod,
                    documentsRetrieved |-> Len(usedDocs),
                    model |-> Model,
                    queryType |-> IF loc[t].isCasual THEN "casual" ELSE "knowledge"]]

\* A casual path that would strip the thinking block from the reply.
CasualResponseParsed(response) ==
  [answer |-> ParseThinking(response).cleanResponse,
   thinking |-> JsUndefined,
   sources |-> <<>>,
   metadata |-> [generationMethod |-> "direct-llm",
                 documentsRetrieved |-> 0,
                 model |-> Model,
                 queryType |-> "casual"]]

\* The object query returns on the casual path.
CasualResponse(response) ==
  [answer |-> response,
   thinking |-> JsUndefined,
   sources |-> <<>>,
   metadata |-> [generationMethod |-> "direct-llm",
                 documentsRetrieved |-> 0,
                 model |-> Model,
                 queryType |-> "casual"]]

\* generate(prompt): the messages sent to the chat endpoint.
GenerateMessages(prompt) == <<[role |-> "user", content |-> prompt]>>

\* generateWithContext(query, context): the messages sent.
ContextMessages(query, context) ==
  <<[role |-> "system", content |-> "You are a helpful assistant"],
    [role |-> "user",
     content |-> [context |-> [j \in 1..Len(context) |->
                                 [index |-> j,
                                  title |-> context[j].document.title,
                                  content |-> context[j].document.content]],
                  question |-> query]]>>

\* A pipeline that would not filter what it retrieved.
RelevantDocsUnfiltered(retrievedDocs) == retrievedDocs

\* A filter that would keep a chunk scoring exactly 0.3.
RelevantDocsInclusive(retrievedDocs) ==
  SelectSeq(retrievedDocs, LAMBDA d : d.score >= RelevanceThreshold)

\* retrievedDocs.filter(doc => doc.score > 0.3)
RelevantDocs(retrievedDocs) ==
  SelectSeq(retrievedDocs, LAMBDA d : d.score > RelevanceThreshold)

\* A direct answer that would keep the retrieved chunks as its sources.
UsedDocsDirectKept(retrievedDocs) == retrievedDocs

\* generationMethod = 'direct-llm'; usedDocs = []
UsedDocsDirect(retrievedDocs) == <<>>

\* query after `await vectorStore.search(query, topK)` settled with r: the
\* relevance filter and the choice of the generation method, up to the
\* chat call (or to the return, on the fallback path).
AfterSearch(t, r, h) ==
  IF r.kind = "error"
  THEN /\ Return(t, r)
       /\ hist' = h
  ELSE LET retrievedDocs == r.val
           relevantDocs == RelevantDocs(retrievedDocs)
           hr == [h EXCEPT ![t].retrieved = retrievedDocs]
       IN IF Len(relevantDocs) = 0 /\ loc[t].ollamaAvailable
          THEN /\ Goto(t, "chat", [loc[t] EXCEPT !.generationMethod = "direct-llm",
                                                 !.usedDocs = UsedDocsDirect(retrievedDocs)])
               /\ hist' = [hr EXCEPT ![t].chats =
                             Append(@, GenerateMessages(arg[t].query))]
          ELSE IF loc[t].ollamaAvailable
          THEN /\ Goto(t, "chat", [loc[t] EXCEPT !.generationMethod = "rag",
                                                 !.usedDocs = relevantDocs])
               /\ hist' = [hr EXCEPT ![t].chats =
                             Append(@, ContextMessages(arg[t].query, relevantDocs))]
          ELSE /\ Return(t, Value(QueryResponse(t,
                       generateFallbackResponse(arg[t].query, retrievedDocs),
                       "fallback", retrievedDocs)))
               /\ hist' = hr

(* --------------------------- VectorStore ------------------------------- *)
\* The store operation a task is in, given its entry point.
StoreOp(t) ==
  CASE op[t] \in {"indexDocuments", "indexUrl", "indexUrls", "indexSitemap"} -> "indexDocuments"
    [] op[t] \in {"search", "query"} -> "search"
    [] OTHER -> op[t]

\* The store operation of task t settles with r; h is the history so far.
\* The awaiting caller goes on: the IndexingService wraps the outcome in
\* the result of indexUrl, the RAGPipeline goes on with the query, a call
\* made on the store itself ends.
StoreReturn(t, r, h) ==
  CASE op[t] \in {"indexUrl", "indexUrls", "indexSitemap"} ->
         EndIndexUrl(t, IndexUrlResult(r, loc[t].chunks), h)
    [] op[t] = "query" ->
         /\ AfterSearch(t, r, h)
         /\ UNCHANGED serviceVars
    [] OTHER ->
         /\ Return(t, r)
         /\ hist' = h
         /\ UNCHANGED serviceVars

\* initialize(): nothing to do once initialized, else load() is awaited.
AfterInitializeCall(cont) == IF initialized THEN cont ELSE "init_load"

\* The keys of a chunk that hold numbers.
NumberKeys == {"chunk", "totalChunks"}

\* JSON.stringify drops the keys whose value is undefined.
JsonDoc(doc) ==
  [k \in {k \in DOMAIN doc : k \in NumberKeys \/ doc[k] # Undefined} |-> doc[k]]

JsonStringify(data) ==
  [documents |-> [j \in 1..Len(data.documents) |-> JsonDoc(data.documents[j])],
   embeddings |-> data.embeddings,
   isIndexed |-> data.isIndexed,
   savedAt |-> data.savedAt,
   version |-> data.version]

\* save(), after mkdir: the object handed to JSON.stringify.
SaveData ==
  [documents |-> documents, embeddings |-> embeddings, isIndexed |-> isIndexed,
   savedAt |-> "now", version |-> "1.0"]

\* A load that would restore the arrays and not the flag.
LoadedStateFlagLost(data) ==
  [documents |-> IF "documents" \in DOMAIN data THEN data.documents ELSE <<>>,
   embeddings |-> IF "embeddings" \in DOMAIN data THEN data.embeddings ELSE <<>>,
   isIndexed |-> FALSE]

\* load(), after readFile and JSON.parse: the three fields it assigns
\* (data.documents || [], data.embeddings || [], data.isIndexed || false).
LoadedState(data) ==
  [documents |-> IF "documents" \in DOMAIN data THEN data.documents ELSE <<>>,
   embeddings |-> IF "embeddings" \in DOMAIN data THEN data.embeddings ELSE <<>>,
   isIndexed |-> IF "isIndexed" \in DOMAIN data THEN data.isIndexed ELSE FALSE]

\* History: the arrays and the flag as they are in memory.
MemState ==
  [documents |-> documents, embeddings |-> embeddings, isIndexed |-> isIndexed]

\* initialize() awaiting load(): readFile settles.  Every error of load()
\* (absent file or any other failure) is caught by initialize().
InitLoad(t) ==
  /\ pc[t] = "init_load"
  /\ Continue(t)
  /\ \E readOk \in BOOLEAN :
       IF readOk /\ file # NoFile
       THEN /\ documents' = LoadedState(file).documents
            /\ embeddings' = LoadedState(file).embeddings
            /\ isIndexed' = LoadedState(file).isIndexed
            /\ hist' = [hist EXCEPT ![t].loaded = TRUE]
            /\ loadHist' = [loadHist EXCEPT !.loads = @ + 1,
                                            !.loadedAfterChange = @ \/ loadHist.changed]
       ELSE /\ UNCHANGED <<documents, embeddings, isIndexed, loadHist>>
            /\ hist' = hist
  /\ initialized' = TRUE
  /\ Goto(t, IF StoreOp(t) = "search" THEN "srch_check" ELSE "idx_filter", loc[t])
  /\ UNCHANGED <<file, fileSrc, serviceVars>>

\* indexDocuments(documents), up to `await this.initialize()`.
CallIndexDocuments(t, docs) ==
  /\ Begin(t, "indexDocuments", [NoArg EXCEPT !.documents = docs])
  /\ Goto(t, AfterInitializeCall("idx_filter"), NoLoc)
  /\ hist' = [hist EXCEPT ![t] = NewHist]
  /\ UNCHANGED <<storeVars, file, fileSrc, loadHist, serviceVars>>

\* The documents handed to indexDocuments by the call of task t.
StoreDocs(t) == IF op[t] = "indexDocuments" THEN arg[t].documents ELSE loc[t].chunks

\* A filter that would compare whole documents instead of ids.
FilterNewByValue(docs, existingIds) ==
  SelectSeq(docs, LAMBDA d : \A j \in 1..Len(documents) : documents[j] # d)

\* const newDocs = documents.filter(doc => !existingIds.has(doc.id))
FilterNew(docs, existingIds) == SelectSeq(docs, LAMBDA d : d.id \notin existingIds)

\* indexDocuments after initialize(): the duplicate filter, then either the
\* early return or the first generateEmbedding call.
IdxFilter(t) ==
  /\ pc[t] = "idx_filter"
  /\ Continue(t)
  /\ LET newDocs == FilterNew(StoreDocs(t), IdsOf(documents))
     IN IF Len(newDocs) = 0
        THEN StoreReturn(t, Value(Undefined), hist)
        ELSE /\ Goto(t, "idx_embed", [loc[t] EXCEPT !.newDocs = newDocs, !.i = 1])
             /\ hist' = [hist EXCEPT ![t].embedCalls = @ + 1]
             /\ UNCHANGED serviceVars
  /\ UNCHANGED <<storeVars, file, fileSrc, loadHist>>

\* const textToEmbed = `${doc.title}. ${doc.content}`
TextToEmbed(doc) == doc.title \o ". " \o doc.content

\* A loop that would catch the failure and go on with the next chunk.
EmbedFailureSkipped(t) ==
  /\ IF loc[t].i < Len(loc[t].newDocs)
     THEN Goto(t, "idx_embed", [loc[t] EXCEPT !.i = @ + 1])
     ELSE Goto(t, "save_mkdir", loc[t])
  /\ hist' = [hist EXCEPT ![t].failedAt = loc[t].i]
  /\ UNCHANGED <<documents, embeddings, isIndexed, serviceVars, loadHist>>

\* indexDocuments has no handler around generateEmbedding: a failure ends
\* the call with the error, the arrays as they are.
EmbedFailure(t) ==
  /\ StoreReturn(t, Error("embedding failed"), [hist EXCEPT ![t].failedAt = loc[t].i])
  /\ loadHist' = [loadHist EXCEPT !.failed = TRUE]
  /\ UNCHANGED <<documents, embeddings, isIndexed>>

\* History after task t has appended a pair: every other call that has
\* appended before now has an append of another call after its own.
Appended(t, h) ==
  [u \in Tasks |->
     IF u = t THEN [h[u] EXCEPT !.pushed = @ + 1,
                                !.pushedDocs = Append(@, loc[t].newDocs[loc[t].i])]
     ELSE [h[u] EXCEPT !.between = @ \/ (InFlight(u) /\ h[u].pushed >= 1)]]

\* An insertion at the front of the array.
Unshift(array, item) == <<item>> \o array

\* this.documents.push(doc); this.embeddings.push(embedding)
Push(array, item) == Append(array, item)

\* The loop body of indexDocuments: generateEmbedding settles for
\* newDocs[i]; on success the pair is appended and either the next
\* embedding is requested or isIndexed is set and save() is entered.
IdxEmbed(t) ==
  /\ pc[t] = "idx_embed"
  /\ Continue(t)
  /\ \E embedOk \in BOOLEAN :
       IF embedOk
       THEN LET doc == loc[t].newDocs[loc[t].i]
            IN /\ documents' = Push(documents, doc)
               /\ embeddings' = Push(embeddings, generateEmbedding(TextToEmbed(doc)))
               /\ loadHist' = [loadHist EXCEPT !.changed = TRUE]
               /\ IF loc[t].i < Len(loc[t].newDocs)
                  THEN /\ Goto(t, "idx_embed", [loc[t] EXCEPT !.i = @ + 1])
                       /\ hist' = [Appended(t, hist) EXCEPT ![t].embedCalls = @ + 1]
                       /\ UNCHANGED isIndexed
                  ELSE /\ isIndexed' = TRUE
                       /\ Goto(t, "save_mkdir", loc[t])
                       /\ hist' = Appended(t, hist)
               /\ UNCHANGED serviceVars
       ELSE EmbedFailure(t)
  /\ UNCHANGED <<initialized, file, fileSrc>>

\* save(): fs.mkdir settles; the snapshot is serialised from the arrays as
\* they are now and fs.writeFile is started.
SaveMkdir(t) ==
  /\ pc[t] = "save_mkdir"
  /\ Continue(t)
  /\ \E mkdirOk \in BOOLEAN :
       IF mkdirOk
       THEN /\ Goto(t, "save_write", [loc[t] EXCEPT !.data = JsonStringify(SaveData),
                                                    !.src = MemState])
            /\ hist' = hist
            /\ UNCHANGED <<serviceVars, loadHist>>
       ELSE /\ StoreReturn(t, Error("mkdir failed"), hist)
            /\ loadHist' = [loadHist EXCEPT !.failed = TRUE]
  /\ UNCHANGED <<storeVars, file, fileSrc>>

\* What the store operation returns once its save() has resolved.
ResultAfterSave(t) ==
  IF op[t] = "removeDocument" THEN Value(TRUE) ELSE Value(Undefined)

\* save(): fs.writeFile settles.  Writes in flight at the same time are
\* taken to reach the file one after the other, in the order they settle.
SaveWrite(t) ==
  /\ pc[t] = "save_write"
  /\ Continue(t)
  /\ \E writeOk \in BOOLEAN :
       IF writeOk
       THEN /\ file' = loc[t].data
            /\ fileSrc' = loc[t].src
            /\ StoreReturn(t, ResultAfterSave(t), [hist EXCEPT ![t].wrote = TRUE])
            /\ UNCHANGED loadHist
       ELSE /\ StoreReturn(t, Error("write failed"), hist)
            /\ loadHist' = [loadHist EXCEPT !.failed = TRUE]
            /\ UNCHANGED <<file, fileSrc>>
  /\ UNCHANGED storeVars

\* this.documents.findIndex(doc => doc.id === id), 1-based; 0 when absent.
FindIndex(docs, id) ==
  IF \E j \in 1..Len(docs) : docs[j].id = id
  THEN CHOOSE j \in 1..Len(docs) :
         docs[j].id = id /\ \A m \in 1..(j - 1) : docs[m].id # id
  ELSE 0

\* array.splice(index): without a count, everything from index on goes.
SpliceToEnd(s, index) == SubSeq(s, 1, index - 1)

\* array.splice(index, 1)
Splice(s, index) == SubSeq(s, 1, index - 1) \o SubSeq(s, index + 1, Len(s))

\* A removal that would leave the embeddings alone.
RemovedPairDocumentsOnly(index) ==
  [documents |-> Splice(documents, index), embeddings |-> embeddings]

\* removeDocument: the two splices at the index found.
RemovedPair(index) ==
  [documents |-> Splice(documents, index), embeddings |-> Splice(embeddings, index)]

\* removeDocument(id), up to `await this.save()` (or to its return).
CallRemoveDocument(t, id) ==
  /\ Begin(t, "removeDocument", [NoArg EXCEPT !.id = id])
  /\ LET index == FindIndex(documents, id)
     IN IF index = 0
        THEN /\ Return(t, Value(FALSE))
             /\ UNCHANGED <<documents, embeddings, loadHist>>
        ELSE /\ documents' = RemovedPair(index).documents
             /\ embeddings' = RemovedPair(index).embeddings
             /\ loadHist' = [loadHist EXCEPT !.changed = TRUE]
             /\ Goto(t, "save_mkdir", NoLoc)
  /\ hist' = [hist EXCEPT ![t] = NewHist]
  /\ UNCHANGED <<isIndexed, initialized, file, fileSrc, serviceVars>>

\* clear(), up to `await this.save()`.
CallClear(t) ==
  /\ Begin(t, "clear", NoArg)
  /\ documents' = <<>>
  /\ embeddings' = <<>>
  /\ isIndexed' = FALSE
  /\ loadHist' = [loadHist EXCEPT !.changed = @ \/ Len(documents) > 0]
  /\ Goto(t, "save_mkdir", NoLoc)
  /\ hist' = [hist EXCEPT ![t] = NewHist]
  /\ UNCHANGED <<initialized, file, fileSrc, serviceVars>>

\* search(query, topK), up to `await this.initialize()`.
CallSearch(t, query, topK) ==
  /\ Begin(t, "search", [NoArg EXCEPT !.query = query, !.topK = topK])
  /\ Goto(t, AfterInitializeCall("srch_check"), NoLoc)
  /\ hist' = [hist EXCEPT ![t] = [NewHist EXCEPT !.searches = 1]]
  /\ UNCHANGED <<storeVars, file, fileSrc, loadHist, serviceVars>>

\* search after initialize(): the empty-store check, then the query
\* embedding is requested.
SrchCheck(t) ==
  /\ pc[t] = "srch_check"
  /\ Continue(t)
  /\ IF ~isIndexed \/ Len(documents) = 0
     THEN StoreReturn(t, Value(<<>>), hist)
     ELSE /\ Goto(t, "srch_embed", loc[t])
          /\ hist' = [hist EXCEPT ![t].embedCalls = @ + 1]
          /\ UNCHANGED serviceVars
  /\ UNCHANGED <<storeVars, file, fileSrc, loadHist>>

\* this.embeddings.map((embedding, index) => ({index, score}))
Scores(queryEmbedding) ==
  [j \in 1..Len(embeddings) |->
     [index |-> j, score |-> cosineSimilarity(queryEmbedding, embeddings[j])]]

\* The comparator (a, b) => b.score - a.score leaves a before b unless b
\* scores more.
ComesFirst(a, b) == a.score >= b.score

\* Array.prototype.sort is stable: an element is placed behind every
\* element that was before it and does not have to follow it.
RECURSIVE InsertSorted(_, _)
InsertSorted(s, x) ==
  IF s = <<>> THEN <<x>>
  ELSE IF ComesFirst(s[Len(s)], x) THEN Append(s, x)
  ELSE Append(InsertSorted(SubSeq(s, 1, Len(s) - 1), x), s[Len(s)])

RECURSIVE SortScores(_)
SortScores(s) ==
  IF s = <<>> THEN <<>>
  ELSE InsertSorted(SortScores(SubSeq(s, 1, Len(s) - 1)), s[Len(s)])

\* array.slice(0, end): a negative end counts from the end of the array.
Slice0(s, end) ==
  LET e == IF end < 0 THEN Max(Len(s) + end, 0) ELSE Min(end, Len(s))
  IN SubSeq(s, 1, e)

\* search, from the scores to the returned list.
SearchResults(queryEmbedding, topK) ==
  LET topResults == Slice0(SortScores(Scores(queryEmbedding)), topK)
  IN [j \in 1..Len(topResults) |->
        [document |-> documents[topResults[j].index], score |-> topResults[j].score]]

DimensionMismatch(queryEmbedding) ==
  \E j \in 1..Len(embeddings) : Len(embeddings[j]) # Len(queryEmbedding)

\* const topK = options.topK || this.defaultTopK
QueryTopK(topK) == IF topK = 0 THEN defaultTopK ELSE topK

\* The topK that reaches search in the call of task t.
SearchTopK(t) == IF op[t] = "query" THEN QueryTopK(arg[t].topK) ELSE arg[t].topK

\* A search that would answer with the empty list when a stored vector
\* does not fit the query's.
SimilarityFailureEmpty(t) ==
  StoreReturn(t, Value(<<>>), [hist EXCEPT ![t].raised = Append(@, "similarity")])

\* search has no handler around the map over this.embeddings: the error
\* of cosineSimilarity ends the call, no list is returned.
SimilarityFailure(t) ==
  StoreReturn(t, Error(DimensionError),
              [hist EXCEPT ![t].raised = Append(@, "similarity")])

\* search: generateEmbedding(query) settles; scores, sort, slice, return.
SrchEmbed(t) ==
  /\ pc[t] = "srch_embed"
  /\ Continue(t)
  /\ \E embedOk \in BOOLEAN :
       IF ~embedOk
       THEN StoreReturn(t, Error("embedding failed"),
                        [hist EXCEPT ![t].raised = Append(@, "embedding")])
       ELSE LET queryEmbedding == generateEmbedding(arg[t].query)
            IN IF DimensionMismatch(queryEmbedding)
               THEN SimilarityFailure(t)
               ELSE StoreReturn(t, Value(SearchResults(queryEmbedding, SearchTopK(t))), hist)
  /\ UNCHANGED <<storeVars, file, fileSrc, loadHist>>

\* The process is restarted: a fresh VectorStore and IndexingService are
\* constructed, every handler in flight is gone, the snapshot file stays.
Restart ==
  /\ ncalls < MaxCalls
  /\ file # NoFile
  /\ documents' = <<>>
  /\ embeddings' = <<>>
  /\ isIndexed' = FALSE
  /\ initialized' = FALSE
  /\ isIndexing' = FALSE
  /\ currentProgress' = IdleProgress
  /\ pc' = [t \in Tasks |-> "idle"]
  /\ op' = [t \in Tasks |-> "none"]
  /\ arg' = [t \in Tasks |-> NoArg]
  /\ loc' = [t \in Tasks |-> NoLoc]
  /\ ret' = [t \in Tasks |-> NoRet]
  /\ hist' = [t \in Tasks |-> NoHist]
  /\ solo' = [t \in Tasks |-> TRUE]
  /\ loadHist' = NoLoads
  /\ ncalls' = ncalls + 1
  /\ UNCHANGED <<file, fileSrc, chunker>>

\* The requests that reach the store directly.
Next ==
  \/ \E t \in Tasks, docs \in Batches : CallIndexDocuments(t, docs)
  \/ \E t \in Tasks, id \in Ids : CallRemoveDocument(t, id)
  \/ \E t \in Tasks : CallClear(t)
  \/ \E t \in Tasks, a \in SearchArgs : CallSearch(t, a[1], a[2])
  \/ \E t \in Tasks : InitLoad(t)
  \/ \E t \in Tasks : IdxFilter(t)
  \/ \E t \in Tasks : IdxEmbed(t)
  \/ \E t \in Tasks : SaveMkdir(t)
  \/ \E t \in Tasks : SaveWrite(t)
  \/ \E t \in Tasks : SrchCheck(t)
  \/ \E t \in Tasks : SrchEmbed(t)
  \/ Restart

Spec == Init /\ [][Next]_vars

(* ----------------------- IndexingService: actions ---------------------- *)
\* The URL lists of the bulk requests, and what a sitemap may list.
UrlLists == {<<"/a", "/b">>, <<"/e", "/b">>}
SitemapLists == UrlLists \cup {<<>>}

SitemapError(message) == "Failed to process sitemap: " \o message

\* A guard that would never reject.
IndexingInProgressNever == FALSE

\* indexUrls: if (this.isIndexing)
IndexingInProgress == isIndexing

\* A progress object that would not take the number of URLs.
RunningProgressNoTotal(urls) ==
  [status |-> "running", totalUrls |-> 0, processedUrls |-> 0,
   totalChunks |-> 0, errors |-> <<>>]

\* The progress object indexUrls installs.
RunningProgress(urls) ==
  [status |-> "running", totalUrls |-> Len(urls), processedUrls |-> 0,
   totalChunks |-> 0, errors |-> <<>>]

\* Math.round(num / den) for num >= 0 and den > 0: halves go up.
MathRound(num, den) == (2 * num + den) \div (2 * den)

\* getProgress(): the progress object with the percentage added.
getProgress ==
  [status |-> currentProgress.status,
   totalUrls |-> currentProgress.totalUrls,
   processedUrls |-> currentProgress.processedUrls,
   totalChunks |-> currentProgress.totalChunks,
   errors |-> currentProgress.errors,
   percentage |-> IF currentProgress.totalUrls > 0
                  THEN MathRound(currentProgress.processedUrls * 100,
                                 currentProgress.totalUrls)
                  ELSE 0]

\* indexUrls(urls) up to its first await: the guard, the flag and the
\* progress, then the first indexUrl up to its scrape; with no URL the
\* batch completes at once.  message is the error the caller of task t
\* sees when the guard rejects; h is the history so far.
IndexUrlsEntry(t, urls, message, h) ==
  IF IndexingInProgress
  THEN /\ Return(t, Error(message))
       /\ hist' = h
       /\ UNCHANGED serviceVars
  ELSE IF urls = <<>>
  THEN /\ currentProgress' = BatchDone(RunningProgress(urls), NoResults).currentProgress
       /\ isIndexing' = BatchDone(RunningProgress(urls), NoResults).isIndexing
       /\ Return(t, Value(NoResults))
       /\ hist' = h
  ELSE /\ isIndexing' = TRUE
       /\ currentProgress' = RunningProgress(urls)
       /\ Goto(t, "scrape", [NoLoc EXCEPT !.urls = urls, !.k = 1])
       /\ hist' = [h EXCEPT ![t].attempted = <<urls[1]>>]

\* POST /index/url: indexUrl(url), up to `await webScraper.scrape(url)`.
CallIndexUrl(t, url) ==
  /\ Begin(t, "indexUrl", [NoArg EXCEPT !.urls = <<url>>])
  /\ Goto(t, "scrape", [NoLoc EXCEPT !.urls = <<url>>, !.k = 1])
  /\ hist' = [hist EXCEPT ![t] = [NewHist EXCEPT !.attempted = <<url>>]]
  /\ UNCHANGED <<storeVars, file, fileSrc, loadHist, serviceVars>>

\* POST /index/bulk: indexUrls(urls).
CallIndexUrls(t, urls) ==
  /\ Begin(t, "indexUrls", [NoArg EXCEPT !.urls = urls])
  /\ IndexUrlsEntry(t, urls, AlreadyIndexing, [hist EXCEPT ![t] = NewHist])
  /\ UNCHANGED <<storeVars, file, fileSrc, loadHist>>

\* POST /index/sitemap: indexSitemap(sitemapUrl), up to the fetch of the
\* sitemap in parseSitemap.
CallIndexSitemap(t) ==
  /\ Begin(t, "indexSitemap", NoArg)
  /\ Goto(t, "sitemap", NoLoc)
  /\ hist' = [hist EXCEPT ![t] = NewHist]
  /\ UNCHANGED <<storeVars, file, fileSrc, loadHist, serviceVars>>

\* indexSitemap: fetchHtml settles; the <loc> entries are the argument of
\* indexUrls, and every error is wrapped.
Sitemap(t) ==
  /\ pc[t] = "sitemap"
  /\ solo' = [u \in Tasks |-> u = t /\ solo[u]]
  /\ UNCHANGED <<op, ncalls, chunker>>
  /\ \E fetchOk \in BOOLEAN, urls \in SitemapLists :
       IF fetchOk
       THEN /\ arg' = [arg EXCEPT ![t].urls = urls]
            /\ IndexUrlsEntry(t, urls, SitemapError(AlreadyIndexing), hist)
       ELSE /\ Return(t, Error(SitemapError("fetch failed")))
            /\ hist' = hist
            /\ UNCHANGED <<arg, serviceVars>>
  /\ UNCHANGED <<storeVars, file, fileSrc, loadHist>>

\* A test that would let an empty list of chunks through.
NoChunksNever(chunks) == FALSE

\* if (chunks.length === 0)
NoChunks(chunks) == Len(chunks) = 0

\* indexUrl: scrape settles; processDocument; either a result without
\* content or indexDocuments(chunks) up to `await this.initialize()`.
Scrape(t) ==
  /\ pc[t] = "scrape"
  /\ Continue(t)
  /\ \E scrapeOk \in BOOLEAN :
       IF ~scrapeOk
       THEN EndIndexUrl(t, IndexUrlResult(Error("scrape failed"), <<>>), hist)
       ELSE LET chunks == processDocument(ScrapedDoc(CurrentUrl(t)))
            IN IF NoChunks(chunks)
               THEN EndIndexUrl(t, IndexUrlResult(Error(NoContent), <<>>), hist)
               ELSE /\ Goto(t, AfterInitializeCall("idx_filter"),
                            [loc[t] EXCEPT !.chunks = chunks])
                    /\ hist' = hist
                    /\ UNCHANGED serviceVars
  /\ UNCHANGED <<storeVars, file, fileSrc, loadHist>>

\* The ingestion requests and the steps of their handlers.
NextIndexing ==
  \/ \E t \in Tasks, url \in Urls : CallIndexUrl(t, url)
  \/ \E t \in Tasks, urls \in UrlLists : CallIndexUrls(t, urls)
  \/ \E t \in Tasks : CallIndexSitemap(t)
  \/ \E t \in Tasks : Sitemap(t)
  \/ \E t \in Tasks : Scrape(t)
  \/ \E t \in Tasks : InitLoad(t)
  \/ \E t \in Tasks : IdxFilter(t)
  \/ \E t \in Tasks : IdxEmbed(t)
  \/ \E t \in Tasks : SaveMkdir(t)
  \/ \E t \in Tasks : SaveWrite(t)

SpecIndexing == Init /\ [][NextIndexing]_vars

\* The continuation of the handler of task t after the await it is
\* suspended at.
Settle(t) ==
  \/ Sitemap(t)
  \/ Scrape(t)
  \/ InitLoad(t)
  \/ IdxFilter(t)
  \/ IdxEmbed(t)
  \/ SaveMkdir(t)
  \/ SaveWrite(t)

\* Every external call (fetch, embedding, file system) returns or raises,
\* and the event loop then runs the continuation of the handler.
SpecIndexingFair == SpecIndexing /\ \A t \in Tasks : WF_vars(Settle(t))

(* ------------------------- RAGPipeline: actions ------------------------ *)
\* The chat requests of the model: (message, topK, includeThinking).
QueryArgs ==
  {<<"  Hello", 2, FALSE>>, <<"history", 0, TRUE>>,
   <<"What is the return policy?", 2, TRUE>>,
   <<"What is the return policy?", 0, FALSE>>,
   <<"Where is my order?", 2, TRUE>>}

\* What the chat endpoint may answer (data.message?.content || '').
ModelOutputs ==
  {<<"Hi!">>,
   <<"<think>", " ", "plan", "\n", "</think>", "\n", "The policy is 30 days.">>,
   <<>>}

\* The characters of the queries of the model.
Chars(query) ==
  CASE query = "  Hello" ->
         <<" ", " ", "H", "e", "l", "l", "o">>
    [] query = "history" ->
         <<"h", "i", "s", "t", "o", "r", "y">>
    [] query = "What is the return policy?" ->
         <<"W", "h", "a", "t", " ", "i", "s", " ", "t", "h", "e", " ", "r", "e", "t", "u", "r", "n", " ", "p", "o", "l", "i", "c", "y", "?">>
    [] query = "Where is my order?" ->
         <<"W", "h", "e", "r", "e", " ", "i", "s", " ", "m", "y", " ", "o", "r", "d", "e", "r", "?">>
    [] OTHER -> <<>>

\* String.prototype.toLowerCase, character by character.
Lower(c) ==
  CASE c = "A" -> "a" [] c = "B" -> "b" [] c = "C" -> "c" [] c = "D" -> "d"
    [] c = "E" -> "e" [] c = "F" -> "f" [] c = "G" -> "g" [] c = "H" -> "h"
    [] c = "I" -> "i" [] c = "J" -> "j" [] c = "K" -> "k" [] c = "L" -> "l"
    [] c = "M" -> "m" [] c = "N" -> "n" [] c = "O" -> "o" [] c = "P" -> "p"
    [] c = "Q" -> "q" [] c = "R" -> "r" [] c = "S" -> "s" [] c = "T" -> "t"
    [] c = "U" -> "u" [] c = "V" -> "v" [] c = "W" -> "w" [] c = "X" -> "x"
    [] c = "Y" -> "y" [] c = "Z" -> "z"
    [] OTHER -> c

ToLowerCase(s) == [j \in 1..Len(s) |-> Lower(s[j])]

\* Elements of a pattern: a character, an optional character (x?), a run
\* of white space (\s+).
Lit(c) == [kind |-> "lit", c |-> c]
Opt(c) == [kind |-> "opt", c |-> c]
WS == [kind |-> "ws", c |-> " "]

\* casualPatterns: each pattern is anchored at the start and is the set of
\* its alternatives.
casualPatterns ==
  <<{<<Lit("h"), Lit("i")>>,
     <<Lit("h"), Lit("e"), Lit("l"), Lit("l"), Lit("o")>>,
     <<Lit("h"), Lit("e"), Lit("y")>>,
     <<Lit("s"), Lit("u"), Lit("p")>>,
     <<Lit("y"), Lit("o")>>,
     <<Lit("g"), Lit("r"), Lit("e"), Lit("e"), Lit("t"), Lit("i"), Lit("n"), Lit("g"), Opt("s")>>,
     <<Lit("g"), Lit("o"), Lit("o"), Lit("d"), WS, Lit("m"), Lit("o"), Lit("r"), Lit("n"), Lit("i"), Lit("n"), Lit("g")>>,
     <<Lit("g"), Lit("o"), Lit("o"), Lit("d"), WS, Lit("a"), Lit("f"), Lit("t"), Lit("e"), Lit("r"), Lit("n"), Lit("o"), Lit("o"), Lit("n")>>,
     <<Lit("g"), Lit("o"), Lit("o"), Lit("d"), WS, Lit("e"), Lit("v"), Lit("e"), Lit("n"), Lit("i"), Lit("n"), Lit("g")>>,
     <<Lit("g"), Lit("o"), Lit("o"), Lit("d"), WS, Lit("d"), Lit("a"), Lit("y")>>},
    {<<Lit("h"), Lit("o"), Lit("w"), WS, Lit("a"), Lit("r"), Lit("e"), WS, Lit("y"), Lit("o"), Lit("u")>>,
     <<Lit("w"), Lit("h"), Lit("a"), Lit("t"), Opt("'"), Lit("s"), WS, Lit("u"), Lit("p")>>,
     <<Lit("h"), Lit("o"), Lit("w"), Opt("'"), Lit("s"), WS, Lit("i"), Lit("t"), WS, Lit("g"), Lit("o"), Lit("i"), Lit("n"), Lit("g")>>},
    {<<Lit("t"), Lit("h"), Lit("a"), Lit("n"), Lit("k"), Opt("s")>>,
     <<Lit("t"), Lit("h"), Lit("a"), Lit("n"), Lit("k"), WS, Lit("y"), Lit("o"), Lit("u")>>,
     <<Lit("t"), Lit("h"), Lit("x")>>,
     <<Lit("c"), Lit("h"), Lit("e"), Lit("e"), Lit("r"), Lit("s")>>},
    {<<Lit("b"), Lit("y"), Lit("e")>>,
     <<Lit("g"), Lit("o"), Lit("o"), Lit("d"), Lit("b"), Lit("y"), Lit("e")>>,
     <<Lit("s"), Lit("e"), Lit("e"), WS, Lit("y"), Lit("a")>>,
     <<Lit("l"), Lit("a"), Lit("t"), Lit("e"), Lit("r")>>,
     <<Lit("c"), Lit("y"), Lit("a")>>},
    {<<Lit("o"), Lit("k")>>,
     <<Lit("o"), Lit("k"), Lit("a"), Lit("y")>>,
     <<Lit("c"), Lit("o"), Lit("o"), Lit("l")>>,
     <<Lit("n"), Lit("i"), Lit("c"), Lit("e")>>,
     <<Lit("g"), Lit("r"), Lit("e"), Lit("a"), Lit("t")>>,
     <<Lit("a"), Lit("w"), Lit("e"), Lit("s"), Lit("o"), Lit("m"), Lit("e")>>,
     <<Lit("s"), Lit("u"), Lit("r"), Lit("e")>>},
    {<<Lit("w"), Lit("h"), Lit("o"), WS, Lit("a"), Lit("r"), Lit("e"), WS, Lit("y"), Lit("o"), Lit("u")>>,
     <<Lit("w"), Lit("h"), Lit("a"), Lit("t"), WS, Lit("a"), Lit("r"), Lit("e"), WS, Lit("y"), Lit("o"), Lit("u")>>,
     <<Lit("i"), Lit("n"), Lit("t"), Lit("r"), Lit("o"), Lit("d"), Lit("u"), Lit("c"), Lit("e"), WS, Lit("y"), Lit("o"), Lit("u"), Lit("r"), Lit("s"), Lit("e"), Lit("l"), Lit("f")>>}>>

\* pattern.test(s) for one alternative of an anchored pattern: the
\* alternative matches a prefix of s.
RECURSIVE MatchesPrefix(_, _)
MatchesPrefix(pattern, s) ==
  IF pattern = <<>> THEN TRUE
  ELSE LET e == Head(pattern)
       IN CASE e.kind = "lit" ->
                 s # <<>> /\ Head(s) = e.c /\ MatchesPrefix(Tail(pattern), Tail(s))
            [] e.kind = "opt" ->
                 \/ s # <<>> /\ Head(s) = e.c /\ MatchesPrefix(Tail(pattern), Tail(s))
                 \/ MatchesPrefix(Tail(pattern), s)
            [] OTHER ->
                 s # <<>> /\ IsSpace(Head(s))
                   /\ MatchesPrefix(Tail(pattern), TrimStart(Tail(s)))

\* isCasualConversation(query)
isCasualConversation(query) ==
  LET trimmedQuery == ToLowerCase(Trim(Chars(query)))
  IN \E j \in 1..Len(casualPatterns) :
       \E alternative \in casualPatterns[j] : MatchesPrefix(alternative, trimmedQuery)

\* isCasualConversation on the messages of the model, computed once.
IsCasual == [query \in {a[1] : a \in QueryArgs} |-> isCasualConversation(query)]

\* POST /chat: query(query, options), up to `await ollamaService.healthCheck()`.
CallQuery(t, query, topK, includeThinking) ==
  /\ Begin(t, "query", [NoArg EXCEPT !.query = query, !.topK = topK,
                                      !.includeThinking = includeThinking])
  /\ Goto(t, "health", NoLoc)
  /\ hist' = [hist EXCEPT ![t] = NewHist]
  /\ UNCHANGED <<storeVars, file, fileSrc, loadHist, serviceVars>>

\* Variant of OllamaAvailable: the answer a finished query got is reused.
OllamaAvailableCached(t, answer) ==
  LET earlier == {u \in Tasks \ {t} : op[u] = "query" /\ pc[u] = "done"}
  IN IF earlier = {} THEN answer
     ELSE loc[CHOOSE u \in earlier : TRUE].ollamaAvailable

\* `const ollamaAvailable = await ollamaService.healthCheck()`: the local of
\* query t holds the answer of the check this query has just awaited
\* (healthCheck keeps nothing between calls).
OllamaAvailable(t, answer) == answer

\* query: healthCheck settles (it never raises) with the backend's answer
\* of this moment; the classification; then either the chat call of the
\* casual path or vectorStore.search up to `await this.initialize()`.
Health(t) ==
  /\ pc[t] = "health"
  /\ Continue(t)
  /\ \E answer \in BOOLEAN, isCasual \in {IsCasual[arg[t].query]} :
       LET ollamaAvailable == OllamaAvailable(t, answer)
           l == [loc[t] EXCEPT !.ollamaAvailable = ollamaAvailable,
                               !.isCasual = isCasual]
           h == [hist EXCEPT ![t].health = Append(@, answer)]
       IN IF isCasual /\ ollamaAvailable
          THEN /\ Goto(t, "chat", [l EXCEPT !.generationMethod = "direct-llm"])
               /\ hist' = [h EXCEPT ![t].chats =
                             Append(@, GenerateMessages(arg[t].query))]
          ELSE /\ Goto(t, AfterInitializeCall("srch_check"), l)
               /\ hist' = [h EXCEPT ![t].searches = @ + 1]
  /\ UNCHANGED <<storeVars, file, fileSrc, loadHist, serviceVars>>

\* A query that would answer with the fallback text when its chat call
\* raises.
ChatFailureFallback(t) ==
  /\ Return(t, Value(QueryResponse(t,
               generateFallbackResponse(arg[t].query, hist[t].retrieved),
               "fallback", hist[t].retrieved)))
  /\ hist' = [hist EXCEPT ![t].raised = Append(@, "chat")]

\* query has no handler around its chat calls: the error of chat() ends
\* the query.
ChatFailure(t) ==
  /\ Return(t, Error("Ollama API error"))
  /\ hist' = [hist EXCEPT ![t].raised = Append(@, "chat")]

\* query: the chat call settles; the response object is built.
Chat(t) ==
  /\ pc[t] = "chat"
  /\ Continue(t)
  /\ \E chatOk \in BOOLEAN, output \in ModelOutputs :
       IF chatOk
       THEN /\ Return(t, Value(IF loc[t].isCasual
                               THEN CasualResponse(output)
                               ELSE QueryResponse(t, output, loc[t].generationMethod,
                                                  loc[t].usedDocs)))
            /\ hist' = [hist EXCEPT ![t].replies = Append(@, output)]
       ELSE ChatFailure(t)
  /\ UNCHANGED <<storeVars, file, fileSrc, loadHist, serviceVars>>

\* The knowledge base indexed at startup, the chat requests and the steps
\* of their handlers.
NextQuery ==
  \/ \E t \in Tasks, docs \in Batches : CallIndexDocuments(t, docs)
  \/ \E t \in Tasks, a \in QueryArgs : CallQuery(t, a[1], a[2], a[3])
  \/ \E t \in Tasks : Health(t)
  \/ \E t \in Tasks : Chat(t)
  \/ \E t \in Tasks : InitLoad(t)
  \/ \E t \in Tasks : IdxFilter(t)
  \/ \E t \in Tasks : IdxEmbed(t)
  \/ \E t \in Tasks : SaveMkdir(t)
  \/ \E t \in Tasks : SaveWrite(t)
  \/ \E t \in Tasks : SrchCheck(t)
  \/ \E t \in Tasks : SrchEmbed(t)

\* What an earlier run of the server, started with another
\* EMBEDDING_MODEL, left in memory when it saved: its vectors have three
\* components, those of the running model four.
OtherModelState ==
  [documents |-> <<ChunkA, ChunkB>>,
   embeddings |-> << <<4, 3, 0>>, <<4, -3, 0>> >>,
   isIndexed |-> TRUE]

\* The snapshot file that run wrote.
OtherModelSnapshot ==
  JsonStringify([documents |-> OtherModelState.documents,
                 embeddings |-> OtherModelState.embeddings,
                 isIndexed |-> OtherModelState.isIndexed,
                 savedAt |-> "before", version |-> "1.0"])

\* The server starts with no snapshot file or with the one an earlier run
\* left.
InitQuery ==
  \/ Init
  \/ /\ documents = <<>>
     /\ embeddings = <<>>
     /\ isIndexed = FALSE
     /\ initialized = FALSE
     /\ file = OtherModelSnapshot
     /\ isIndexing = FALSE
     /\ currentProgress = IdleProgress
     /\ pc = [t \in Tasks |-> "idle"]
     /\ op = [t \in Tasks |-> "none"]
     /\ arg = [t \in Tasks |-> NoArg]
     /\ loc = [t \in Tasks |-> NoLoc]
     /\ ret = [t \in Tasks |-> NoRet]
     /\ hist = [t \in Tasks |-> NoHist]
     /\ solo = [t \in Tasks |-> TRUE]
     /\ fileSrc = OtherModelState
     /\ loadHist = NoLoads
     /\ ncalls = 0
     /\ chunker = NewChunker(DefaultChunkSize, DefaultChunkOverlap)

SpecQuery == InitQuery /\ [][NextQuery]_vars

\* The continuation of the handler of task t after the await it is
\* suspended at, for the requests of NextQuery.
SettleQuery(t) ==
  \/ Health(t)
  \/ Chat(t)
  \/ InitLoad(t)
  \/ IdxFilter(t)
  \/ IdxEmbed(t)
  \/ SaveMkdir(t)
  \/ SaveWrite(t)
  \/ SrchCheck(t)
  \/ SrchEmbed(t)

\* Every external call (health check, chat, embedding, file system)
\* returns or raises, and the event loop then runs the continuation.
SpecQueryFair == SpecQuery /\ \A t \in Tasks : WF_vars(SettleQuery(t))

(* --------------------- DocumentProcessor: chunkText -------------------- *)
\* Everything but the document processor.
serverVars == <<documents, embeddings, isIndexed, initialized, file, isIndexing,
                currentProgress, pc, op, arg, loc, ret, hist, solo, fileSrc, loadHist,
                ncalls>>

\* The contents handed to processDocument, as sequences of characters.  A
\* content is given by its length and its shape: one long word, words of
\* four letters, sentences of seven characters separated by ". " (the
\* bundled scraper hands over such texts: cleanText has replaced every run
\* of white space by one space and trimmed the ends), or a word with two
\* spaces before and after it (processDocument takes the content of
\* whatever document it is given).
TextLengths == {0, 10, 49, 50, 60, 61, 100, 800, 801, 1000}
Shapes == {"word", "words", "sentences", "padded"}

ScrapedText(n, shape) ==
  [i \in 1..n |->
     CASE shape = "words" /\ i % 5 = 0 /\ i < n -> " "
       [] shape = "sentences" /\ i % 8 = 7 /\ i + 1 < n -> "."
       [] shape = "sentences" /\ i % 8 = 0 /\ i < n -> " "
       [] shape = "padded" /\ (i <= 2 \/ i > n - 2) -> " "
       [] OTHER -> "a"]

\* <<CHUNK_SIZE, CHUNK_OVERLAP>> as the constructor reads them: the
\* defaults, windows without overlap, and overlaps that reach or pass the
\* window.
Configs ==
  {<<DefaultChunkSize, DefaultChunkOverlap>>, <<60, 0>>, <<60, 10>>, <<20, 0>>,
   <<20, 20>>, <<20, 30>>, <<5, 0>>, <<1, 0>>, <<1, 1>>}

\* String.prototype.substring(start, end), indices counted from 0: both
\* ends are clamped to the string and swapped when out of order.
Clamp(n, len) == Max(0, Min(n, len))

Substring(text, start, end) ==
  LET a == Clamp(start, Len(text))
      b == Clamp(end, Len(text))
  IN SubSeq(text, Min(a, b) + 1, Max(a, b))

\* Math.max of a set of numbers.
MathMax(S) == CHOOSE m \in S : \A n \in S : n <= m

\* String.prototype.lastIndexOf(pattern): the last index, counted from 0,
\* at which the pattern starts; -1 when the pattern is absent.
LastIndexOf(text, pattern) ==
  MathMax({0 - 1} \cup {i \in 0..(Len(text) - Len(pattern)) :
                         SubSeq(text, i + 1, i + Len(pattern)) = pattern})

\* The contents of the pages of the model, character by character.
PageText(content) ==
  CASE content = "x" -> ScrapedText(60, "words")
    [] content = "yz" -> ScrapedText(1000, "sentences")
    [] OTHER -> ScrapedText(10, "word")

\* A validation that refuses only the empty content.
TooShortEmptyOnly(content) == Len(content) = 0

\* processDocument: `if (!content || content.length < 50)`.
TooShort(content) == Len(content) = 0 \/ Len(content) < MinContentLength

\* Where the window that starts at c.startIndex ends: at chunkSize
\* characters, or after the last sentence end of the window when that lies
\* in its second half and the text goes on.
EndIndex(c) ==
  LET endIndex == c.startIndex + c.chunkSize
      chunkText == Substring(c.text, c.startIndex, endIndex)
      lastSentenceEnd ==
        MathMax({LastIndexOf(chunkText, <<".", " ">>),
                 LastIndexOf(chunkText, <<"!", " ">>),
                 LastIndexOf(chunkText, <<"?", " ">>),
                 LastIndexOf(chunkText, <<"\n">>)})
  IN IF endIndex < Len(c.text) /\ 2 * lastSentenceEnd > c.chunkSize
     THEN c.startIndex + lastSentenceEnd + 1
     ELSE endIndex

\* `if (startIndex <= chunks[chunks.length - 1]?.length && chunks.length > 0)
\* break`: with no chunk yet the comparison is against undefined and false.
LoopBreaks(startIndex, chunks) ==
  Len(chunks) > 0 /\ startIndex <= Len(chunks[Len(chunks)])

\* The rest of the loop body once the window end and the trimmed chunk
\* are known: push the chunk unless it is empty, move the window, break or
\* go round again.  (odd is history: the parity of the iterations run, so
\* that an iteration that changes nothing else is still a step.)
LoopBody(c, endIndex, chunk) ==
  LET chunks == IF Len(chunk) > 0 THEN Append(c.chunks, chunk) ELSE c.chunks
      spans == IF Len(chunk) > 0
               THEN Append(c.spans, <<c.startIndex, endIndex>>)
               ELSE c.spans
      startIndex == endIndex - c.chunkOverlap
  IN [c EXCEPT !.chunks = chunks, !.spans = spans, !.startIndex = startIndex,
               !.odd = ~@,
               !.pc = IF LoopBreaks(startIndex, chunks) THEN "done" ELSE "loop"]

\* processDocument(scrapedDoc) up to the loop of chunkText: the content is
\* refused, returned as the only chunk, or handed to the loop.
CallProcessDocument ==
  /\ chunker.pc \in {"idle", "done"}
  /\ \E n \in TextLengths, shape \in Shapes :
       LET content == ScrapedText(n, shape)
           c == [chunker EXCEPT !.text = content, !.startIndex = 0,
                                !.chunks = <<>>, !.spans = <<>>, !.odd = FALSE]
       IN chunker' =
            IF TooShort(content)
            THEN [c EXCEPT !.pc = "done", !.called = "skipped"]
            ELSE IF Len(content) <= c.chunkSize
            THEN [c EXCEPT !.pc = "done", !.called = "chunked",
                           !.chunks = <<content>>,
                           !.spans = <<<<0, Len(content)>>>>]
            ELSE [c EXCEPT !.pc = "loop", !.called = "chunked"]
  /\ UNCHANGED serverVars

\* `while (startIndex < text.length)`: one iteration, or the end of the loop.
ChunkLoop ==
  /\ chunker.pc = "loop"
  /\ IF chunker.startIndex < Len(chunker.text)
     THEN \E endIndex \in {EndIndex(chunker)} :
            \E chunk \in {Trim(Substring(chunker.text, chunker.startIndex,
                                         endIndex))} :
              chunker' = LoopBody(chunker, endIndex, chunk)
     ELSE chunker' = [chunker EXCEPT !.pc = "done"]
  /\ UNCHANGED serverVars

InitChunk ==
  /\ ServerInit
  /\ \E config \in Configs : chunker = NewChunker(config[1], config[2])

NextChunk ==
  \/ CallProcessDocument
  \/ ChunkLoop

SpecChunk == InitChunk /\ [][NextChunk]_vars

\* chunkText runs without yielding, so a loop that can take a step takes it.
SpecChunkFair == SpecChunk /\ WF_vars(ChunkLoop)

(* -------------------------- deduplicateChunks -------------------------- *)
\* The chunks handed to deduplicateChunks, by the fields it reads or that
\* tell them apart: chunks of different pages may carry the same text.
DedupChunks == [id : {"c0", "c1", "c2"}, contentHash : {"md5:x", "md5:y"}]

DedupInputs == UNION {[1..n -> DedupChunks] : n \in 0..MaxChunks}

\* A comparison by id instead of by content hash.
DedupKeyId(chunk) == chunk.id

\* What `seen` holds of a chunk: chunk.contentHash.
DedupKey(chunk) == chunk.contentHash

\* The for loop of deduplicateChunks from the j-th chunk on.
RECURSIVE DedupFrom(_, _, _, _)
DedupFrom(chunks, j, seen, deduplicated) ==
  IF j > Len(chunks) THEN deduplicated
  ELSE IF DedupKey(chunks[j]) \notin seen
       THEN DedupFrom(chunks, j + 1, seen \cup {DedupKey(chunks[j])},
                      Append(deduplicated, chunks[j]))
       ELSE DedupFrom(chunks, j + 1, seen, deduplicated)

deduplicateChunks(chunks) == DedupFrom(chunks, 1, {}, <<>>)

\* deduplicateChunks(chunks) on chunks the caller has collected.
CallDeduplicateChunks ==
  /\ \E chunks \in DedupInputs :
       chunker' = [chunker EXCEPT !.called = "deduplicated",
                                  !.input = chunks,
                                  !.output = deduplicateChunks(chunks),
                                  !.again = <<>>]
  /\ UNCHANGED serverVars

\* deduplicateChunks on the result of the call before.
DeduplicateOutput ==
  /\ chunker.called = "deduplicated"
  /\ chunker' = [chunker EXCEPT !.called = "deduplicatedAgain",
                                !.again = deduplicateChunks(chunker.output)]
  /\ UNCHANGED serverVars

NextDedup == CallDeduplicateChunks \/ DeduplicateOutput

SpecDedup == Init /\ [][NextDedup]_vars

\* The tables ContentLength and PageChunks agree with chunkText: under the
\* default configuration a page of the model is refused, or cut into as
\* many chunks, as processDocument has it.
PageTable ==
  \A url \in Urls :
    LET content == ScrapedDoc(url).content
    IN (/\ chunker.pc = "done"
        /\ chunker.called # "none"
        /\ chunker.text = PageText(content)
        /\ chunker.chunkSize = DefaultChunkSize
        /\ chunker.chunkOverlap = DefaultChunkOverlap)
       => /\ ContentLength(content) = Len(chunker.text)
          /\ Len(processDocument(ScrapedDoc(url))) = Len(chunker.chunks)

(* ------------------------------ claims --------------------------------- *)
\* C1: at every point where another task can run (every state of Spec),
\* documents and embeddings have the same length and embeddings[i] is the
\* embedding computed for documents[i], whatever the interleaving of
\* indexDocuments, removeDocument, clear, initialize/load and search.
C1_PairedArrays ==
  /\ Len(documents) = Len(embeddings)
  /\ \A j \in 1..Len(documents) :
       embeddings[j] = generateEmbedding(TextToEmbed(documents[j]))

\* A batch is between two appends while a removal awaits its save.
C1_Witness ==
  \E t, u \in Tasks :
    /\ op[t] = "indexDocuments" /\ pc[t] = "idx_embed" /\ hist[t].pushed >= 1
    /\ op[u] = "removeDocument" /\ pc[u] \in {"save_mkdir", "save_write"}
    /\ Len(documents) >= 1

\* C2: an indexDocuments call made when every id it submits is already in
\* the store, and run with no other task in between, adds no document and
\* no embedding: the count stays what it was when the call was made.
C2_IdempotentReindex ==
  \A t \in Tasks :
    (/\ op[t] = "indexDocuments" /\ pc[t] = "done" /\ solo[t]
     /\ IdsOf(arg[t].documents) \subseteq hist[t].idsAtCall)
    => /\ hist[t].pushed = 0
       /\ Len(documents) = hist[t].lenAtCall
       /\ Len(embeddings) = hist[t].lenAtCall
       /\ ret[t] = Value(Undefined)

\* The second indexDocuments([c]) has returned.
C2_Witness ==
  \E t \in Tasks :
    /\ op[t] = "indexDocuments" /\ pc[t] = "done" /\ solo[t]
    /\ Len(arg[t].documents) = 1
    /\ IdsOf(arg[t].documents) \subseteq hist[t].idsAtCall
    /\ Len(documents) = 1

\* The step in which task t is called through entry point o.
IsCall(t, o) == ncalls' = ncalls + 1 /\ op'[t] = o /\ solo'[t] /\ pc'[t] # "idle"

Without(s, j) == [m \in 1..(Len(s) - 1) |-> IF m < j THEN s[m] ELSE s[m + 1]]

C3_Step ==
  \A t \in Tasks :
    IsCall(t, "removeDocument") =>
      IF arg'[t].id \in IdsOf(documents)
      THEN /\ \E j \in 1..Len(documents) :
                /\ documents[j].id = arg'[t].id
                /\ documents' = Without(documents, j)
                /\ embeddings' = Without(embeddings, j)
           /\ pc'[t] = "save_mkdir"
           /\ isIndexed' = isIndexed
      ELSE /\ pc'[t] = "done"
           /\ ret'[t] = Value(FALSE)
           /\ UNCHANGED <<documents, embeddings, isIndexed, file>>

C3_Result ==
  \A t \in Tasks :
    (op[t] = "removeDocument" /\ pc[t] = "done") =>
      IF arg[t].id \in hist[t].idsAtCall
      THEN ret[t] = Value(TRUE) \/ ret[t].kind = "error"
      ELSE ret[t] = Value(FALSE) /\ ~hist[t].wrote

\* C3: removeDocument(id) on a present id removes exactly one document and
\* the embedding at the same index, every other pair kept in order, and
\* its result is true (when the save that follows raises, the call raises
\* instead of returning); on an absent id it returns false and changes
\* neither documents, embeddings, isIndexed nor the snapshot file.
C3_RemoveDocument == [][C3_Step]_vars /\ []C3_Result

\* A removal from the middle of the store has returned true.
C3_Witness ==
  \E t \in Tasks :
    /\ op[t] = "removeDocument" /\ pc[t] = "done" /\ ret[t] = Value(TRUE)
    /\ hist[t].lenAtCall = 2 /\ Len(documents) = 1 /\ Len(embeddings) = 1
    /\ documents[1].id # arg[t].id

\* C4: search(query, k) returns at most k results, and the returned scores
\* are in non-increasing order.
C4_TopKSorted ==
  \A t \in Tasks :
    (op[t] = "search" /\ pc[t] = "done" /\ ret[t].kind = "value") =>
      /\ Len(ret[t].val) <= arg[t].topK
      /\ \A j \in 1..(Len(ret[t].val) - 1) :
           ret[t].val[j].score >= ret[t].val[j + 1].score

DocKeys == {"id", "title", "content", "description", "url", "chunk",
            "totalChunks", "contentHash", "category"}

\* The same document, property by property.
SameDoc(a, b) == \A k \in DocKeys : Get(a, k) = Get(b, k)

SameDocs(s1, s2) ==
  /\ Len(s1) = Len(s2)
  /\ \A j \in 1..Len(s1) : SameDoc(s1[j], s2[j])

\* C5: when a store loads the snapshot, it holds the documents, the
\* embeddings in the same order and the isIndexed flag that the saving
\* store had in memory when it serialised the snapshot.
C5_RoundTrip ==
  [][\A t \in Tasks :
       (pc[t] = "init_load" /\ hist'[t].loaded) =>
         /\ SameDocs(documents', fileSrc.documents)
         /\ embeddings' = fileSrc.embeddings
         /\ isIndexed' = fileSrc.isIndexed]_vars

\* A fresh store has loaded a snapshot whose JSON text is not the saved
\* objects themselves (a key with value undefined is not written).
C5_Witness ==
  \E t \in Tasks :
    /\ hist[t].loaded /\ pc[t] \in {"idx_filter", "srch_check"}
    /\ documents # <<>> /\ isIndexed
    /\ documents # fileSrc.documents
    /\ SameDocs(documents, fileSrc.documents)

\* C9: when embedding the j-th new chunk fails, the j-1 chunks before it
\* stay appended with their embeddings, nothing more is embedded or
\* appended, the error goes to the caller and the call writes no snapshot.
C9_PartialFailure ==
  [][\A t \in Tasks :
       (op[t] = "indexDocuments" /\ hist[t].failedAt = 0 /\ hist'[t].failedAt # 0) =>
         LET j == loc[t].i
             n == Len(documents)
         IN /\ hist'[t].failedAt = j
            /\ pc'[t] = "done"
            /\ ret'[t] = Error("embedding failed")
            /\ documents' = documents /\ embeddings' = embeddings
            /\ file' = file
            /\ hist[t].pushed = j - 1
            /\ hist'[t].pushed = j - 1
            /\ hist'[t].embedCalls = j
            /\ ~hist'[t].wrote
            /\ solo[t] =>
                 /\ n >= j - 1
                 /\ SubSeq(documents', n - j + 2, n) = SubSeq(loc[t].newDocs, 1, j - 1)
                 /\ \A m \in (n - j + 2)..n :
                      embeddings'[m] = generateEmbedding(TextToEmbed(documents'[m]))]_vars

\* The second chunk of a batch failed; the first one is in the store.
C9_Witness ==
  \E t \in Tasks :
    /\ op[t] = "indexDocuments" /\ pc[t] = "done"
    /\ ret[t] = Error("embedding failed")
    /\ hist[t].failedAt = 2 /\ hist[t].pushed = 1 /\ hist[t].embedCalls = 2
    /\ Len(documents) = 1 /\ ~isIndexed /\ file = NoFile

\* Task t runs the loop of an indexUrls batch.
Batching(t) ==
  /\ op[t] \in {"indexUrls", "indexSitemap"}
  /\ pc[t] \in {"scrape", "init_load", "idx_filter", "idx_embed", "save_mkdir",
                "save_write"}

C6_SingleFlight ==
  /\ Cardinality({t \in Tasks : Batching(t)}) <= 1
  /\ isIndexing <=> \E t \in Tasks : Batching(t)

C6_Rejection ==
  \A t \in Tasks :
    /\ IsCall(t, "indexUrls") =>
         IF isIndexing
         THEN /\ pc'[t] = "done"
              /\ ret'[t] = Error(AlreadyIndexing)
              /\ UNCHANGED <<isIndexing, currentProgress, storeVars, file>>
         ELSE ret'[t].kind # "error"
    /\ (op[t] = "indexSitemap" /\ pc[t] = "sitemap" /\ pc'[t] # "sitemap"
          /\ isIndexing) =>
         /\ pc'[t] = "done"
         /\ ret'[t].kind = "error"
         /\ UNCHANGED <<isIndexing, currentProgress, storeVars, file>>

\* C6: at most one indexUrls batch is in progress at any time, and the
\* flag is set exactly while one is; an indexUrls call made while a batch
\* runs is rejected with 'Indexing already in progress' and leaves the
\* isIndexing flag and the progress of the running batch as they were.
C6_OneBatch == []C6_SingleFlight /\ [][C6_Rejection]_vars

\* A bulk request was rejected while the batch of the other task runs.
C6_Witness ==
  \E t, u \in Tasks :
    /\ op[t] = "indexUrls" /\ pc[t] = "done" /\ ret[t] = Error(AlreadyIndexing)
    /\ Batching(u) /\ isIndexing
    /\ currentProgress.status = "running" /\ currentProgress.processedUrls = 1

\* C7: ingestion runs never append to the store concurrently: when a run
\* started through indexUrl, indexUrls or indexSitemap appends a chunk
\* after an earlier append of its own, no other run has appended in
\* between.
C7_NoConcurrentAppend ==
  [][\A t \in Tasks :
       (/\ op[t] \in {"indexUrl", "indexUrls", "indexSitemap"}
        /\ hist[t].pushed >= 1
        /\ hist'[t].pushed = hist[t].pushed + 1)
       => ~hist[t].between]_vars

RECURSIVE IsSubsequence(_, _)
IsSubsequence(s, of) ==
  IF s = <<>> THEN TRUE
  ELSE IF of = <<>> THEN FALSE
  ELSE IF Head(s) = Head(of) THEN IsSubsequence(Tail(s), Tail(of))
  ELSE IsSubsequence(s, Tail(of))

C8_Report ==
  \A t \in Tasks :
    (op[t] \in {"indexUrls", "indexSitemap"} /\ pc[t] = "done"
       /\ ret[t].kind = "value") =>
      LET n == Len(arg[t].urls)
          r == ret[t].val
      IN /\ hist[t].attempted = arg[t].urls
         /\ r.successful + r.failed = n
         /\ Len(r.errors) = r.failed
         /\ IsSubsequence([j \in 1..Len(r.errors) |-> r.errors[j].url], arg[t].urls)

C8_Completion ==
  \A t \in Tasks :
    (op'[t] \in {"indexUrls", "indexSitemap"} /\ pc[t] # "done" /\ pc'[t] = "done"
       /\ ret'[t].kind = "value") =>
      /\ currentProgress'.status = "completed"
      /\ currentProgress'.processedUrls = Len(arg'[t].urls)
      /\ currentProgress'.totalUrls = Len(arg'[t].urls)
      /\ currentProgress'.errors = ret'[t].val.errors
      /\ ~isIndexing'

\* C8: a failing unit never aborts an indexUrls batch: every URL of the
\* list is attempted in list order, the report has successful + failed = n
\* with one errors entry per failed URL, and when the batch completes
\* processedUrls = totalUrls = n.
C8_BatchCompletes == []C8_Report /\ [][C8_Completion]_vars

\* A batch whose first URL failed went on to index its second URL.
C8_Witness ==
  \E t \in Tasks :
    /\ op[t] = "indexUrls" /\ pc[t] = "done" /\ ret[t].kind = "value"
    /\ arg[t].urls = <<"/e", "/b">>
    /\ ret[t].val.failed = 1 /\ ret[t].val.successful = 1
    /\ ret[t].val.totalChunks = 1
    /\ currentProgress.processedUrls = 2

C10_Routing ==
  \A t \in Tasks :
    (/\ op[t] = "query" /\ pc[t] = "health" /\ pc'[t] # "health"
     /\ isCasualConversation(arg[t].query) /\ loc'[t].ollamaAvailable)
    => /\ pc'[t] = "chat"
       /\ hist'[t].chats = <<GenerateMessages(arg[t].query)>>
       /\ hist'[t].searches = 0 /\ hist'[t].embedCalls = 0

C10_Answer ==
  \A t \in Tasks :
    (/\ op[t] = "query" /\ pc[t] = "chat" /\ pc'[t] = "done"
     /\ isCasualConversation(arg[t].query) /\ loc[t].ollamaAvailable
     /\ ret'[t].kind = "value")
    => LET r == ret'[t].val
       IN /\ hist'[t].replies # <<>>
          /\ r.answer = hist'[t].replies[Len(hist'[t].replies)]
          /\ r.sources = <<>>
          /\ r.metadata.generationMethod = "direct-llm"
          /\ r.metadata.documentsRetrieved = 0
          /\ r.metadata.queryType = "casual"
          /\ hist'[t].chats = <<GenerateMessages(arg[t].query)>>
          /\ hist'[t].searches = 0 /\ hist'[t].embedCalls = 0

\* C10: a query classified casual whose health check reports the backend
\* available does no retrieval (no store search, no query embedding),
\* sends the raw query to the chat backend in one call, and returns the
\* text of the reply with no sources, generationMethod 'direct-llm',
\* documentsRetrieved 0 and queryType 'casual'.
C10_CasualDirect == [][C10_Routing /\ C10_Answer]_vars

\* A greeting was answered from the model while the store holds documents
\* the retrieval would have found.
C10_Witness ==
  \E t \in Tasks :
    /\ op[t] = "query" /\ pc[t] = "done" /\ ret[t].kind = "value"
    /\ arg[t].query = "  Hello"
    /\ ret[t].val.metadata.queryType = "casual"
    /\ ret[t].val.metadata.generationMethod = "direct-llm"
    /\ Includes(ret[t].val.answer, "<think>")
    /\ hist[t].replies = <<ret[t].val.answer>>
    /\ isIndexed /\ Len(documents) >= 2

\* The vectorStore.search awaited by the query of task t settles.
SearchSettles(t) ==
  /\ op[t] = "query" /\ pc[t] \in {"srch_check", "srch_embed"}
  /\ pc'[t] \notin {"srch_check", "srch_embed"}
  /\ ~(pc'[t] = "done" /\ ret'[t].kind = "error")

\* The query of task t, which went through retrieval, gets the reply of
\* the chat backend.
ChatAnswers(t) ==
  /\ op[t] = "query" /\ pc[t] = "chat" /\ pc'[t] = "done"
  /\ ret'[t].kind = "value" /\ hist[t].searches = 1

NoneAbove(retrieved) == \A j \in 1..Len(retrieved) : retrieved[j].score <= 300

C11_Routing ==
  \A t \in Tasks :
    (SearchSettles(t) /\ loc[t].ollamaAvailable /\ NoneAbove(hist'[t].retrieved))
    => /\ pc'[t] = "chat"
       /\ hist'[t].chats = <<GenerateMessages(arg[t].query)>>

C11_Answer ==
  \A t \in Tasks :
    (ChatAnswers(t) /\ NoneAbove(hist[t].retrieved))
    => /\ ret'[t].val.metadata.generationMethod = "direct-llm"
       /\ ret'[t].val.sources = <<>>
       /\ ret'[t].val.metadata.documentsRetrieved = 0

\* C11: on the knowledge path with the backend available, when no
\* retrieved chunk scores strictly above 0.3 (a score of exactly 0.3 does
\* not count), the chat backend is called once with the bare query and no
\* context, and the response has generationMethod 'direct-llm' and no
\* sources.
C11_NoRelevantDirect == [][C11_Routing /\ C11_Answer]_vars

\* A knowledge query whose best chunk scored exactly 0.3 was answered.
C11_Witness ==
  \E t \in Tasks :
    /\ op[t] = "query" /\ pc[t] = "done" /\ ret[t].kind = "value"
    /\ hist[t].retrieved # <<>> /\ hist[t].retrieved[1].score = 300
    /\ ret[t].val.metadata.queryType = "knowledge"
    /\ ret[t].val.metadata.generationMethod = "direct-llm"
    /\ ret[t].val.sources = <<>>

\* The retrieved chunks that score strictly above 0.3, in rank order.
Above(retrieved) == SelectSeq(retrieved, LAMBDA d : d.score > 300)

\* The context block of a chat request built from chunks.
ContextOf(chunks) ==
  [j \in 1..Len(chunks) |->
     [index |-> j, title |-> chunks[j].document.title,
      content |-> chunks[j].document.content]]

C12_Routing ==
  \A t \in Tasks :
    (SearchSettles(t) /\ loc[t].ollamaAvailable /\ ~NoneAbove(hist'[t].retrieved))
    => /\ pc'[t] = "chat"
       /\ Len(hist'[t].chats) = 1
       /\ LET user == hist'[t].chats[1][2]
          IN /\ user.role = "user"
             /\ user.content.question = arg[t].query
             /\ user.content.context = ContextOf(Above(hist'[t].retrieved))

C12_Answer ==
  \A t \in Tasks :
    (ChatAnswers(t) /\ ~NoneAbove(hist[t].retrieved))
    => LET relevant == Above(hist[t].retrieved)
           sources == ret'[t].val.sources
       IN /\ ret'[t].val.metadata.generationMethod = "rag"
          /\ ret'[t].val.metadata.documentsRetrieved = Len(relevant)
          /\ Len(sources) = Len(relevant)
          /\ \A j \in 1..Len(sources) :
               /\ sources[j].id = relevant[j].document.id
               /\ sources[j].title = relevant[j].document.title
               /\ sources[j].relevanceScore = relevant[j].score
               /\ sources[j].relevanceScore > 300

\* C12: on the knowledge path with the backend available and at least one
\* retrieved chunk scoring above 0.3, the chat backend is called with
\* exactly the chunks scoring above 0.3 as context, in rank order, and the
\* response has generationMethod 'rag' with exactly those chunks as
\* sources.
C12_RelevantRag == [][C12_Routing /\ C12_Answer]_vars

\* Two chunks were retrieved, one of them at or below 0.3; the answer
\* names the other one only.
C12_Witness ==
  \E t \in Tasks :
    /\ op[t] = "query" /\ pc[t] = "done" /\ ret[t].kind = "value"
    /\ Len(hist[t].retrieved) = 2 /\ Len(Above(hist[t].retrieved)) = 1
    /\ ret[t].val.metadata.generationMethod = "rag"
    /\ Len(ret[t].val.sources) = 1
    /\ hist[t].chats[1][2].content.context = ContextOf(Above(hist[t].retrieved))

\* The tokens of text appear in answer, in order and without a gap.
Quotes(answer, text) ==
  \E i \in 1..Len(answer) :
    /\ i + Len(Tokens(text)) - 1 <= Len(answer)
    /\ SubSeq(answer, i, i + Len(Tokens(text)) - 1) = Tokens(text)

C13_NoChat ==
  \A t \in Tasks :
    (op[t] = "query" /\ pc[t] = "health" /\ pc'[t] # "health"
       /\ ~loc'[t].ollamaAvailable)
    => /\ pc'[t] \in {"init_load", "srch_check"}
       /\ hist'[t].searches = 1 /\ hist'[t].chats = <<>>

C13_Answer ==
  \A t \in Tasks :
    (SearchSettles(t) /\ ~loc[t].ollamaAvailable)
    => LET retrieved == hist'[t].retrieved
           r == ret'[t].val
       IN /\ pc'[t] = "done" /\ ret'[t].kind = "value"
          /\ hist'[t].chats = <<>>
          /\ r.metadata.generationMethod = "fallback"
          /\ Len(r.sources) = Len(retrieved)
          /\ \A j \in 1..Len(retrieved) :
               /\ r.sources[j].id = retrieved[j].document.id
               /\ r.sources[j].relevanceScore = retrieved[j].score
          /\ IF retrieved = <<>>
             THEN r.answer = <<NotFound>>
             ELSE Quotes(r.answer, retrieved[1].document.content)

\* C13: when the health check reports the backend unavailable, the query
\* never calls the chat backend; it searches the store and answers with
\* the content of the top-ranked retrieved chunk quoted verbatim (or the
\* fixed 'could not find' message when nothing was retrieved), with
\* generationMethod 'fallback' and the whole retrieved list as sources,
\* whatever the scores.
C13_FallbackQuote == [][C13_NoChat /\ C13_Answer]_vars

\* C14: for every query answered from the text of the chat backend (casual
\* direct-llm, knowledge direct-llm and rag), when the raw output holds a
\* paired <think>...</think> block the answer is the output without the
\* block, and the text of the block is handed out in the thinking field
\* only, and only when includeThinking was set.
C14_ThinkingStripped ==
  [][\A t \in Tasks :
       (op[t] = "query" /\ pc[t] = "chat" /\ pc'[t] = "done"
          /\ ret'[t].kind = "value")
       => LET output == hist'[t].replies[Len(hist'[t].replies)]
              parsed == ParseThinking(output)
              r == ret'[t].val
          IN parsed.matched =>
               /\ r.answer = parsed.cleanResponse
               /\ ~Includes(r.answer, "<think>")
               /\ r.thinking = IF arg[t].includeThinking THEN parsed.thinking
                               ELSE JsUndefined]_vars

\* C15: whenever processDocument has returned for a document whose content
\* is shorter than 50 characters, it has returned the empty sequence: the
\* content never reached chunkText and no chunk was produced.  (No step of
\* processDocument raises, so the call always returns.)
C15_ShortContentSkipped ==
  (chunker.pc = "done" /\ chunker.called # "none"
     /\ Len(chunker.text) < MinContentLength)
    => (chunker.called = "skipped" /\ chunker.chunks = <<>>)

C15_Witness ==
  /\ chunker.pc = "done"
  /\ chunker.called = "skipped"
  /\ Len(chunker.text) = MinContentLength - 1
  /\ chunker.chunks = <<>>

\* C16: whenever processDocument has returned for a document whose content
\* has at least 50 and at most chunkSize characters, chunkText has produced
\* exactly one chunk, and its content is the trimmed content of the
\* document.
C16_OneChunk ==
  (chunker.pc = "done" /\ chunker.called # "none"
     /\ Len(chunker.text) >= MinContentLength
     /\ Len(chunker.text) <= chunker.chunkSize)
    => chunker.chunks = <<Trim(chunker.text)>>

\* The part of C16 that holds: such a content gives exactly one chunk, the
\* content as it was handed over.
C16_OneChunkAsIs ==
  (chunker.pc = "done" /\ chunker.called # "none"
     /\ Len(chunker.text) >= MinContentLength
     /\ Len(chunker.text) <= chunker.chunkSize)
    => chunker.chunks = <<chunker.text>>

\* The windows the chunks were cut from follow one another in the text and
\* each chunk is the trimmed text of its window.
InOrder(c) ==
  /\ Len(c.spans) = Len(c.chunks)
  /\ \A j \in 1..Len(c.spans) :
       c.chunks[j] = Trim(Substring(c.text, c.spans[j][1], c.spans[j][2]))
  /\ \A j \in 1..(Len(c.spans) - 1) : c.spans[j][1] <= c.spans[j + 1][1]

\* Every character of the text that is not white space lies in the window
\* of some chunk.
Covered(c) ==
  \A p \in 1..Len(c.text) :
    IsSpace(c.text[p])
      \/ \E j \in 1..Len(c.spans) : c.spans[j][1] < p /\ p <= c.spans[j][2]

\* C17: whenever chunkText has returned for a document longer than
\* chunkSize, its chunks cover the whole text in order: each chunk is the
\* trimmed text of a window, the windows follow one another, and no
\* character of the document outside trimmed white space is missing from
\* every chunk.
C17_ChunksCoverText ==
  (chunker.pc = "done" /\ chunker.called = "chunked"
     /\ Len(chunker.text) > chunker.chunkSize)
    => (InOrder(chunker) /\ Covered(chunker))

\* The part of C17 that holds: the chunks are windows of the text, in the
\* order of the text.
C17_ChunksInOrder ==
  (chunker.pc = "done" /\ chunker.called = "chunked"
     /\ Len(chunker.text) > chunker.chunkSize)
    => InOrder(chunker)

\* An iteration that leaves chunkText in its loop has moved the window
\* start forward.
C18_Advances ==
  (chunker.pc = "loop" /\ chunker'.pc = "loop")
    => chunker'.startIndex > chunker.startIndex

\* C18: chunkText terminates for every content and every configuration
\* with chunkSize >= 1 and chunkOverlap >= 0, those whose overlap reaches
\* or passes the window included: no iteration leaves the window start
\* where it was or moves it back without ending the loop, and a call that
\* has entered the loop returns.
C18_ChunkTextTerminates ==
  /\ [][C18_Advances]_vars
  /\ (chunker.pc = "loop") ~> (chunker.pc = "done")

\* The part of C18 that holds: chunkText returns for every content that
\* does not start with white space.
C18_TerminatesAfterFirstChunk ==
  /\ [][(chunker.pc = "loop" /\ ~IsSpace(chunker.text[1])) => C18_Advances]_vars
  /\ (chunker.pc = "loop" /\ ~IsSpace(chunker.text[1])) ~> (chunker.pc = "done")

\* C19: whatever the interleaving of the operations that call initialize
\* (indexDocuments, search), a store instance replaces its arrays from the
\* snapshot at most once, and never after a pair has been appended to or
\* removed from them.
C19_LoadedOnce ==
  /\ loadHist.loads <= 1
  /\ ~loadHist.loadedAfterChange

\* The part of C19 that holds: a call that finds the store initialized does
\* not load, so the arrays are only replaced by calls that entered
\* initialize before the first load settled.
C19_NoLoadOnceInitialized ==
  [][(initialized /\ \A t \in Tasks : pc[t] # "init_load")
       => loadHist'.loads <= loadHist.loads]_vars

\* Task t leaves initialize(): its load() has settled.
LoadSettles(t) == pc[t] = "init_load" /\ pc'[t] \notin {"init_load", "idle"}

\* With no snapshot file the store starts empty and the operation goes on.
C20_ColdStart ==
  \A t \in Tasks :
    (LoadSettles(t) /\ file = NoFile)
      => /\ pc'[t] \in {"idx_filter", "srch_check"}
         /\ UNCHANGED <<documents, embeddings, isIndexed>>

\* A load of an existing snapshot that did not replace the arrays has
\* failed, and the operation that triggered it ends with the error.
C20_Surfaced ==
  \A t \in Tasks :
    (LoadSettles(t) /\ file # NoFile /\ loadHist'.loads = loadHist.loads)
      => (pc'[t] = "done" /\ ret'[t].kind = "error")

\* C20: only an absent snapshot file is a cold start: without a file the
\* store initialises empty and the operation goes on without error; when
\* the file exists and reading or parsing it fails, the operation that
\* triggered the load ends with that failure instead of going on with an
\* empty store.
C20_OnlyAbsentIsColdStart == [][C20_ColdStart /\ C20_Surfaced]_vars

\* The part of C20 that holds.
C20_AbsentFileColdStart == [][C20_ColdStart]_vars

(* C21 *)
\* While a query awaits its health check it has made no retrieval and no
\* chat call; once past it, it has made exactly one check.
C21_CheckFirst ==
  \A t \in Tasks :
    op[t] = "query" =>
      /\ pc[t] = "health" =>
            /\ hist[t].health = <<>> /\ hist[t].chats = <<>>
            /\ hist[t].searches = 0 /\ hist[t].embedCalls = 0
      /\ pc[t] \notin {"idle", "health"} => Len(hist[t].health) = 1

\* The branch a query takes follows the answer of its own check: the chat
\* call without retrieval iff casual and available, and after retrieval a
\* chat call iff available, the fallback answer otherwise.
C21_OwnCheckDecides ==
  \A t \in Tasks :
    /\ (op[t] = "query" /\ pc[t] = "health" /\ pc'[t] # "health") =>
          /\ Len(hist'[t].health) = 1
          /\ (pc'[t] = "chat") <=>
                (isCasualConversation(arg[t].query) /\ hist'[t].health[1])
          /\ (pc'[t] # "chat") => hist'[t].searches = 1 /\ hist'[t].chats = <<>>
    /\ (/\ op[t] = "query" /\ pc[t] \notin {"idle", "health", "chat", "done"}
        /\ pc'[t] \in {"chat", "done"} /\ ret'[t].kind # "error") =>
          /\ (pc'[t] = "chat") <=> hist[t].health[1]
          /\ (pc'[t] = "done") =>
                ret'[t].val.metadata.generationMethod = "fallback"

\* C21: backend availability is never carried over from one query to the
\* next: every query makes its own health check before any retrieval or
\* chat call, and the branch it takes follows the answer of that check,
\* whatever an earlier query observed.
C21_HealthPerQuery == []C21_CheckFirst /\ [][C21_OwnCheckDecides]_vars

\* Two queries with the same message got different answers from their
\* health checks and were answered by different methods.
C21_Witness ==
  \E t, u \in Tasks :
    /\ op[t] = "query" /\ pc[t] = "done" /\ ret[t].kind = "value"
    /\ op[u] = "query" /\ pc[u] = "done" /\ ret[u].kind = "value"
    /\ arg[t] = arg[u] /\ arg[t].query = "What is the return policy?"
    /\ hist[t].health = <<TRUE>> /\ hist[u].health = <<FALSE>>
    /\ hist[t].chats # <<>> /\ hist[u].chats = <<>>
    /\ ret[t].val.metadata.generationMethod \in {"rag", "direct-llm"}
    /\ ret[u].val.metadata.generationMethod = "fallback"
(* C22 *)
\* The ids processDocument gives the chunks of the page at url.
C22_IdsOfPage(url) ==
  LET chunks == processDocument(ScrapedDoc(url))
  IN [j \in 1..Len(chunks) |-> chunks[j].id]

\* The chunks an ingestion holds have the ids of their page, which are
\* the id of the URL followed by the index, pairwise distinct; a stored
\* chunk of the same URL and index has the same id.
C22_SameIds ==
  \A t \in Tasks :
    (/\ op[t] \in {"indexUrl", "indexUrls", "indexSitemap"}
     /\ InFlight(t) /\ loc[t].chunks # <<>>) =>
      LET chunks == loc[t].chunks
      IN /\ [j \in 1..Len(chunks) |-> chunks[j].id] = C22_IdsOfPage(CurrentUrl(t))
         /\ \A i, j \in 1..Len(chunks) : i # j => chunks[i].id # chunks[j].id
         /\ \A j \in 1..Len(chunks), d \in 1..Len(documents) :
              (documents[d].url = chunks[j].url /\ documents[d].chunk = chunks[j].chunk)
                => documents[d].id = chunks[j].id

\* An indexUrl of a page whose chunks the store held when the call began,
\* run with no step of another request in between, appends nothing and
\* leaves the store as it was.
C22_SecondAddsNothing ==
  \A t \in Tasks :
    (/\ op[t] = "indexUrl" /\ InFlight(t) /\ solo'[t]
     /\ C22_IdsOfPage(arg[t].urls[1]) # <<>>
     /\ \A j \in 1..Len(C22_IdsOfPage(arg[t].urls[1])) :
          C22_IdsOfPage(arg[t].urls[1])[j] \in hist[t].idsAtCall) =>
      /\ hist'[t].pushed = 0
      /\ documents' = documents /\ embeddings' = embeddings

\* C22: chunk ids depend only on the URL and the index of the chunk, so
\* processing a page again gives the same, pairwise distinct ids, and a
\* second indexUrl of a URL whose chunks are stored, made after the first
\* has ended, adds no document.
C22_ReingestIsNoOp == []C22_SameIds /\ [][C22_SecondAddsNothing]_vars

\* A second indexUrl of a stored page has ended with success and the
\* store holds the page once.
C22_Witness ==
  \E t \in Tasks :
    /\ op[t] = "indexUrl" /\ pc[t] = "done" /\ arg[t].urls = <<"/a">>
    /\ C22_IdsOfPage("/a")[1] \in hist[t].idsAtCall
    /\ ret[t].kind = "value" /\ ret[t].val.success
    /\ hist[t].pushed = 0 /\ solo[t]
    /\ Len(documents) = hist[t].lenAtCall
(* C23 *)
\* C23: every chunk processDocument emits has a content of at least the
\* minimum length (50); shorter chunks are discarded when the document is
\* processed.
C23_ChunksMeetMinimum ==
  chunker.called = "chunked" =>
    \A j \in 1..Len(chunker.chunks) : Len(chunker.chunks[j]) >= MinContentLength
(* C24 *)
\* The positions of chunks at which a contentHash occurs for the first time.
C24_FirstAt(chunks) ==
  {j \in 1..Len(chunks) :
     \A k \in 1..(j - 1) : chunks[k].contentHash # chunks[j].contentHash}

\* The chunks at these positions, in the order of the positions.
C24_FirstOccurrences(chunks) ==
  LET first == C24_FirstAt(chunks)
  IN [n \in 1..Cardinality(first) |->
        chunks[CHOOSE j \in first : Cardinality({k \in first : k <= j}) = n]]

\* C24: deduplicateChunks returns the first occurrence of each contentHash
\* of its input, in input order: no two chunks of the output share a
\* contentHash, every contentHash of the input is in the output, and
\* applied to its own output it returns that output.
C24_FirstOccurrenceKept ==
  chunker.called \in {"deduplicated", "deduplicatedAgain"} =>
    LET input == chunker.input
        output == chunker.output
    IN /\ output = C24_FirstOccurrences(input)
       /\ \A i, j \in 1..Len(output) :
            i # j => output[i].contentHash # output[j].contentHash
       /\ {input[j].contentHash : j \in 1..Len(input)}
            = {output[j].contentHash : j \in 1..Len(output)}
       /\ chunker.called = "deduplicatedAgain" => chunker.again = output

\* Of three chunks the third, which repeats the text of the first under
\* another id, was dropped, and a second application kept the two left.
C24_Witness ==
  /\ chunker.called = "deduplicatedAgain"
  /\ Len(chunker.input) = 3
  /\ chunker.input[1].contentHash = chunker.input[3].contentHash
  /\ chunker.input[1].id # chunker.input[3].id
  /\ chunker.input[2].contentHash # chunker.input[1].contentHash
  /\ chunker.output = <<chunker.input[1], chunker.input[2]>>
  /\ chunker.again = chunker.output
(* C25 *)
\* The scores of the stored embeddings against the embedding of query.
C25_Similarities(query) ==
  [j \in 1..Len(embeddings) |->
     cosineSimilarity(generateEmbedding(query), embeddings[j])]

\* The store indices by descending score, equal scores in store order.
C25_Ranked(s) ==
  [n \in 1..Len(s) |->
     CHOOSE i \in 1..Len(s) :
       Cardinality({j \in 1..Len(s) : s[j] > s[i] \/ (s[j] = s[i] /\ j < i)}) = n - 1]

\* The first k entries of the ranking, each with the score of its index.
C25_TopK(query, k) ==
  LET s == C25_Similarities(query)
      ranked == C25_Ranked(s)
  IN [n \in 1..Min(k, Len(s)) |->
        [document |-> documents[ranked[n]], score |-> s[ranked[n]]]]

C25_Returned(t) ==
  /\ op[t] = "search" /\ pc[t] = "srch_embed" /\ pc'[t] = "done"
  /\ ret'[t].kind = "value"

\* C25: search returns exactly the first topK entries of the store ranked
\* by descending cosine score, documents of equal score in store order,
\* each with the similarity between the query embedding and the embedding
\* stored at the index of its document.
C25_RankedTopK ==
  [][\A t \in Tasks :
       C25_Returned(t) => ret'[t].val = C25_TopK(arg[t].query, arg[t].topK)]_vars

\* The same for the searches whose topK is not negative.
C25_RankedTopKNonNegative ==
  [][\A t \in Tasks :
       (C25_Returned(t) /\ arg[t].topK >= 0)
         => ret'[t].val = C25_TopK(arg[t].query, arg[t].topK)]_vars

\* A search has returned two documents of equal score, in store order.
C25_TieReturned ==
  \E t \in Tasks :
    /\ op[t] = "search" /\ pc[t] = "done" /\ ret[t].kind = "value"
    /\ Len(ret[t].val) = 2 /\ Len(documents) >= 3
    /\ ret[t].val[1].score = ret[t].val[2].score
    /\ ret[t].val[1].document # ret[t].val[2].document
(* C26 *)
\* No store operation is in flight, the arrays have been changed since
\* construction, and no embedding call or save has failed.
C26_Settled ==
  /\ \A t \in Tasks : ~InFlight(t)
  /\ loadHist.changed /\ ~loadHist.failed

\* The snapshot file holds the arrays and the flag as they are in memory.
C26_FileIsMemory ==
  /\ file # NoFile
  /\ SameDocs(documents, file.documents)
  /\ embeddings = file.embeddings
  /\ isIndexed = file.isIndexed

\* C26: whenever no store operation is in flight and every mutating
\* operation so far has completed successfully, the snapshot file holds
\* exactly the documents, embeddings and isIndexed flag in memory, for
\* every interleaving of the operations, overlapping saves included.
C26_SnapshotCurrent == C26_Settled => C26_FileIsMemory

\* The same mismatch with the snapshot loaded at most once and never after
\* a change: the stale snapshot is the work of two overlapping saves.
C26_StaleByOverlappingSaves ==
  /\ C26_Settled /\ ~C26_FileIsMemory
  /\ loadHist.loads <= 1 /\ ~loadHist.loadedAfterChange
(* C27 *)
\* The indexDocuments call of task t has appended chunks and has not
\* completed successfully: it is in flight or has ended with an error.
C27_Incomplete(t) ==
  /\ op[t] = "indexDocuments"
  /\ hist[t].pushed >= 1
  /\ InFlight(t) \/ (pc[t] = "done" /\ ret[t].kind = "error")

\* C27: in every reachable state the snapshot file holds no chunk of an
\* indexDocuments batch that has not completed successfully, whatever
\* removeDocument, clear or other indexDocuments calls run while the batch
\* is in flight or after it has failed part-way.
C27_NoPartialBatchOnDisk ==
  \A t \in Tasks :
    (C27_Incomplete(t) /\ file # NoFile) =>
      \A j \in 1..Len(hist[t].pushedDocs), f \in 1..Len(file.documents) :
        ~SameDoc(file.documents[f], hist[t].pushedDocs[j])

\* Two calls were made on a fresh store: indexDocuments([B, A]) appended B
\* and failed at the embedding of A; indexDocuments([A]) saved.  The file
\* holds B, which only the failed batch has appended.
C27_PartialBatchOnDisk ==
  \E t, u \in Tasks :
    /\ ncalls = 2 /\ loadHist.loads = 0
    /\ op[t] = "indexDocuments" /\ arg[t].documents = <<ChunkB, ChunkA>>
    /\ pc[t] = "done" /\ ret[t] = Error("embedding failed")
    /\ hist[t].pushedDocs = <<ChunkB>>
    /\ op[u] = "indexDocuments" /\ arg[u].documents = <<ChunkA>>
    /\ pc[u] = "done" /\ ret[u].kind = "value" /\ hist[u].wrote
    /\ file # NoFile
    /\ \E f \in 1..Len(file.documents) : SameDoc(file.documents[f], ChunkB)
(* C28 *)
C28_NoContentResult == [success |-> FALSE, chunks |-> 0, errors |-> <<NoContent>>]

C28_ScrapeFailed == [success |-> FALSE, chunks |-> 0, errors |-> <<"scrape failed">>]

\* C28: when the chunking of a fetched page yields no chunk, indexUrl does
\* not raise and makes no call on the Vector Store: it returns success
\* false, chunks 0 and the one reason 'No content extracted from URL', and
\* leaves the store and the snapshot as they are.
C28_NoContentNoStore ==
  [][\A t \in Tasks :
       (/\ op'[t] = "indexUrl" /\ pc'[t] # pc[t] /\ pc[t] \in {"idle", "done", "scrape"}
        /\ processDocument(ScrapedDoc(arg'[t].urls[1])) = <<>>) =>
         /\ documents' = documents /\ embeddings' = embeddings
         /\ isIndexed' = isIndexed /\ initialized' = initialized
         /\ file' = file
         /\ pc[t] = "scrape" =>
              /\ pc'[t] = "done"
              /\ ret'[t].kind = "value"
              /\ ret'[t].val \in {C28_NoContentResult, C28_ScrapeFailed}
              /\ hist'[t].embedCalls = 0 /\ hist'[t].pushed = 0
              /\ ~hist'[t].loaded /\ ~hist'[t].wrote]_vars

\* indexUrl of the page without content has returned the reason while the
\* store holds the chunks of another page.
C28_Witness ==
  \E t \in Tasks :
    /\ op[t] = "indexUrl" /\ arg[t].urls = <<"/e">> /\ pc[t] = "done"
    /\ ret[t] = Value(C28_NoContentResult)
    /\ Len(documents) >= 1 /\ Len(documents) = hist[t].lenAtCall
    /\ file # NoFile
(* C29 *)
\* The flag is set only while a batch runs its loop, and the progress says
\* 'running' then.
C29_FlagHasOwner ==
  isIndexing =>
    /\ \E t \in Tasks : Batching(t)
    /\ currentProgress.status = "running"

\* A bulk request made while the flag is not set is accepted.
C29_Accepted ==
  \A t \in Tasks :
    (~isIndexing /\ IsCall(t, "indexUrls")) =>
      /\ ret'[t].kind # "error"
      /\ arg'[t].urls # <<>> => (isIndexing' /\ pc'[t] = "scrape")

\* C29: every accepted indexUrls batch reaches status 'completed' with
\* isIndexing reset to false, whatever scrape, chunking, embedding or save
\* failures its units hit, provided every external call returns or
\* raises: the flag is never left set and a later batch is accepted.
C29_BatchCompletes ==
  /\ []C29_FlagHasOwner
  /\ [][C29_Accepted]_vars
  /\ isIndexing ~> (~isIndexing /\ currentProgress.status = "completed")

\* A batch whose units failed at the scrape, at the chunking and in the
\* store has completed, and the flag is down.
C29_Witness ==
  \E t \in Tasks :
    /\ op[t] = "indexUrls" /\ pc[t] = "done" /\ ret[t].kind = "value"
    /\ ret[t].val.failed = 2 /\ ret[t].val.successful = 0
    /\ ~isIndexing /\ currentProgress.status = "completed"
    /\ currentProgress.processedUrls = 2
    /\ Len(currentProgress.errors) = 2
    /\ currentProgress.errors[1].errors = <<NoContent>>
    /\ currentProgress.errors[2].errors \in {<<"embedding failed">>, <<"write failed">>}
(* C30 *)
\* What a reader of the progress sees in a state.
C30_ProgressInRange ==
  /\ 0 <= currentProgress.processedUrls
  /\ currentProgress.processedUrls <= currentProgress.totalUrls
  /\ (currentProgress.status = "running") <=> isIndexing
  /\ currentProgress.status \in {"idle", "running", "completed"}
  /\ getProgress.percentage \in 0..100
  /\ getProgress.processedUrls = currentProgress.processedUrls

\* From one state to the next: the status does not go back to 'idle', and
\* while a batch runs its total stays and its count does not go down.
C30_ProgressMoves ==
  /\ currentProgress.status # "idle" => currentProgress'.status # "idle"
  /\ (isIndexing /\ isIndexing') =>
       /\ currentProgress'.totalUrls = currentProgress.totalUrls
       /\ currentProgress'.processedUrls >= currentProgress.processedUrls
  /\ (isIndexing /\ ~isIndexing') =>
       currentProgress'.processedUrls >= currentProgress.processedUrls

\* C30: the progress observed at any point has 0 <= processedUrls <=
\* totalUrls, status 'running' exactly when isIndexing is true, a status
\* that never returns to 'idle' once a batch has started, a processedUrls
\* that never decreases within a batch, and a percentage within 0..100.
C30_Progress == []C30_ProgressInRange /\ [][C30_ProgressMoves]_vars

\* Half-way through a batch of two URLs the reader sees 50 percent.
C30_Witness ==
  /\ isIndexing /\ currentProgress.status = "running"
  /\ currentProgress.totalUrls = 2 /\ currentProgress.processedUrls = 1
  /\ getProgress.percentage = 50
  /\ \E t \in Tasks : Batching(t) /\ loc[t].k = 2
(* C31 *)
C31_Errors == {"embedding failed", DimensionError, "Ollama API error"}

\* A query that has ended has either an answer or an error: the error iff
\* one of its calls raised, and then the error is all it returns.
C31_AnsweredOrFailed ==
  \A t \in Tasks :
    (op[t] = "query" /\ pc[t] = "done") =>
      /\ ret[t].kind \in {"value", "error"}
      /\ (ret[t].kind = "error") <=> (hist[t].raised # <<>>)
      /\ ret[t].kind = "error" =>
           /\ ret[t].val \in C31_Errors
           /\ Len(hist[t].raised) = 1
           /\ hist[t].raised[1] = "embedding" <=> ret[t].val = "embedding failed"
           /\ hist[t].raised[1] = "similarity" <=> ret[t].val = DimensionError
           /\ hist[t].raised[1] = "chat" <=> ret[t].val = "Ollama API error"
      /\ ret[t].kind = "value" => "answer" \in DOMAIN ret[t].val

\* A call of a query that raises ends the query at once.
C31_RaiseEnds ==
  \A t \in Tasks :
    (op[t] = "query" /\ hist'[t].raised # hist[t].raised /\ hist'[t].raised # <<>>) =>
      pc'[t] = "done" /\ ret'[t].kind = "error"

\* C31: every query ends answered or failed, provided every external call
\* returns or raises; it ends failed exactly when its query embedding, the
\* similarity computation or one of its chat calls raises, also when the
\* chat call fails after the health check returned true, and a failed
\* query returns no answer and no fallback text.
C31_QueryEnds ==
  /\ []C31_AnsweredOrFailed
  /\ [][C31_RaiseEnds]_vars
  /\ []<>(\A t \in Tasks : op[t] = "query" => ~InFlight(t))

\* A knowledge query whose health check returned true and whose search
\* found documents has ended failed at its chat call.
C31_Witness ==
  \E t \in Tasks :
    /\ op[t] = "query" /\ pc[t] = "done"
    /\ hist[t].health = <<TRUE>>
    /\ hist[t].retrieved # <<>>
    /\ hist[t].raised = <<"chat">>
    /\ ret[t] = Error("Ollama API error")
(* ------------------------------- C32 ----------------------------------- *)
\* s is what s2 starts with.
C32_Prefix(s, s2) == Len(s) <= Len(s2) /\ SubSeq(s2, 1, Len(s)) = s

\* A step of indexDocuments after its initialize(): the filter, the loop,
\* the save.
C32_IndexStep(t) ==
  /\ StoreOp(t) = "indexDocuments"
  /\ IdxFilter(t) \/ IdxEmbed(t) \/ SaveMkdir(t) \/ SaveWrite(t)

\* The pairs the store held stay where they were, as they were.
C32_Kept ==
  /\ C32_Prefix(documents, documents')
  /\ C32_Prefix(embeddings, embeddings')
  /\ Len(documents') - Len(documents) = Len(embeddings') - Len(embeddings)
  /\ Len(documents') - Len(documents) \in {0, 1}

C33_UniqueIds ==
  \A i, j \in 1..Len(documents) : documents[i].id = documents[j].id => i = j

\* Two overlapping indexDocuments calls have each appended a chunk with
\* the id "A".
C33_SameIdTwice ==
  /\ \A t \in Tasks : op[t] = "indexDocuments" /\ hist[t].pushed >= 1
  /\ \E i, j \in 1..Len(documents) :
       i < j /\ documents[i].id = "A" /\ documents[j].id = "A"

(* ------------------------------- C34 ----------------------------------- *)
\* A search call with topK >= 1 that has returned a list, no step of
\* another request since it was made: the arrays are those it ranked.
C34_Searched(t) ==
  /\ op[t] = "search" /\ pc[t] = "done" /\ solo[t]
  /\ ret[t].kind = "value"
  /\ arg[t].topK >= 1

\* C34: whenever the store holds n >= 1 documents, search(query, k) with
\* k >= 1 returns min(k, n) results; it returns an empty sequence only
\* when the store holds no document.
C34_ResultCount ==
  \A t \in Tasks :
    C34_Searched(t) =>
      /\ Len(documents) >= 1 => Len(ret[t].val) = Min(arg[t].topK, Len(documents))
      /\ ret[t].val = <<>> => Len(documents) = 0

\* A search has returned the empty list from a store that holds a
\* document: an indexDocuments call had failed after its first append.
C34_EmptyFromNonEmptyStore ==
  \E t \in Tasks :
    /\ C34_Searched(t)
    /\ ret[t].val = <<>>
    /\ Len(documents) >= 1
    /\ ~isIndexed

(* ------------------------------- C35 ----------------------------------- *)
\* C35: whenever no store operation is in flight, after any sequence of
\* indexDocuments (failed ones included), removeDocument, clear and load,
\* isIndexed is true exactly when the store holds at least one document.
C35_FlagIffNonEmpty ==
  (\A t \in Tasks : ~InFlight(t)) => (isIndexed <=> Len(documents) >= 1)

\* The last document has been removed and the flag is still set.
C35_FlagOnEmptyStore ==
  /\ \A t \in Tasks : ~InFlight(t)
  /\ \E t \in Tasks : op[t] = "removeDocument" /\ ret[t] = Value(TRUE)
  /\ isIndexed /\ Len(documents) = 0

\* A batch has failed after its first append: a document is stored and
\* the flag is not set.
C35_NoFlagOnNonEmptyStore ==
  /\ \A t \in Tasks : ~InFlight(t)
  /\ \E t \in Tasks : op[t] = "indexDocuments" /\ ret[t].kind = "error"
  /\ ~isIndexed /\ Len(documents) >= 1

(* ------------------------------- C36 ----------------------------------- *)
\* The query of task t has ended answered.
C36_Answered(t) == op[t] = "query" /\ pc[t] = "done" /\ ret[t].kind = "value"

C36_Consistent(response) ==
  LET sources == response.sources
      metadata == response.metadata
  IN /\ metadata.documentsRetrieved = Len(sources)
     /\ metadata.generationMethod = "direct-llm" => sources = <<>>
     /\ metadata.generationMethod = "rag" =>
          /\ sources # <<>>
          /\ \A j \in 1..Len(sources) : sources[j].relevanceScore > RelevanceThreshold
     /\ ~(metadata.queryType = "casual" /\ metadata.generationMethod = "rag")

\* C36: every answered response is internally consistent:
\* documentsRetrieved is the number of sources; 'direct-llm' comes with no
\* source; 'rag' comes with at least one source and every source scores
\* above 0.3; 'casual' never comes with 'rag'.
C36_ResponseConsistent ==
  \A t \in Tasks : C36_Answered(t) => C36_Consistent(ret[t].val)

\* One query answered by 'rag' from fewer chunks than it retrieved, while
\* another was answered directly although search had returned chunks.
C36_Witness ==
  \E t, u \in Tasks :
    /\ C36_Answered(t) /\ C36_Answered(u)
    /\ ret[t].val.metadata.generationMethod = "rag"
    /\ Len(ret[t].val.sources) < Len(hist[t].retrieved)
    /\ ret[u].val.metadata.generationMethod = "direct-llm"
    /\ ret[u].val.metadata.queryType = "knowledge"
    /\ hist[u].retrieved # <<>>

(* ------------------------------- C37 ----------------------------------- *)
\* The step of task t in which the query embedding has settled and some
\* stored vector has another dimension than it.
C37_MismatchStep(t) ==
  /\ pc[t] = "srch_embed" /\ pc'[t] # "srch_embed"
  /\ op'[t] = op[t]
  /\ hist'[t].raised # <<"embedding">>
  /\ \E j \in 1..Len(embeddings) :
       Len(embeddings[j]) # Len(generateEmbedding(arg[t].query))

\* search ends with the dimension error, nothing of the store or of the
\* snapshot changes, and the caller ends failed with that error.
C37_FailsWhole(t) ==
  /\ pc'[t] = "done"
  /\ ret'[t] = Error(DimensionError)
  /\ hist'[t].raised = <<"similarity">>
  /\ UNCHANGED <<documents, embeddings, isIndexed, initialized, file>>

\* A query that has come back from retrieval over a store with a vector
\* of another dimension than its own has ended failed.
C37_QueryFailed ==
  \A t \in Tasks :
    (/\ op[t] = "query" /\ hist[t].searches = 1
     /\ pc[t] \in {"chat", "done"}
     /\ hist[t].raised # <<"embedding">>
     /\ solo[t] /\ isIndexed
     /\ \E j \in 1..Len(embeddings) :
          Len(embeddings[j]) # Len(generateEmbedding(arg[t].query)))
    => pc[t] = "done" /\ ret[t] = Error(DimensionError)

\* C37: if a stored embedding's dimension differs from the query
\* embedding's, search fails with the dimension-mismatch error and returns
\* no result list, the store is left unchanged, and a query that reaches
\* retrieval, the fallback path included, ends failed.
C37_DimensionMismatch ==
  /\ [][\A t \in Tasks : C37_MismatchStep(t) => C37_FailsWhole(t)]_vars
  /\ []C37_QueryFailed

\* With the chat backend down a query has reached retrieval over the
\* vectors of another embedding model and has ended with the error.
C37_Witness ==
  \E t \in Tasks :
    /\ op[t] = "query" /\ pc[t] = "done"
    /\ hist[t].health = <<FALSE>>
    /\ hist[t].raised = <<"similarity">>
    /\ ret[t] = Error(DimensionError)
    /\ hist[t].loaded
    /\ IdsOf(documents) = IdsOf(OtherModelState.documents)
    /\ embeddings = OtherModelState.embeddings

====
